---------------------------- MODULE Spec2Model ----------------------------
(***************************************************************************)
(* Wait-time estimation pipeline of the WaitTime-Service.                  *)
(*                                                                         *)
(*   src/queueModel.py   QueueModel (M/M/1, M/M/k), ArrivalRateSmoother    *)
(*   src/consumer.py     MQTTEventConsumer: message loop, per-event        *)
(*                       processing, change gate, publishing               *)
(*   src/db/*.py         POI table, queue_states table, session handling   *)
(*                                                                         *)
(* Python floats are modelled as exact rationals in lowest terms, extended *)
(* with the IEEE-754 values +inf, -inf and NaN; rounding error of binary   *)
(* floating point is not modelled.  The square root in the confidence      *)
(* margin is kept symbolic (a value  base + marg/sqrt(rad)).               *)
(***************************************************************************)
EXTENDS Integers, Sequences, FiniteSets, TLC

(***************************************************************************)
(* Rational arithmetic.  A rational is a record [n, d] with d > 0 and      *)
(* gcd(|n|, d) = 1.  Products and sums cancel common factors before they   *)
(* multiply, so that intermediate values stay small.                       *)
(***************************************************************************)
Abs(i) == IF i < 0 THEN -i ELSE i

Max(i, j) == IF i >= j THEN i ELSE j

RECURSIVE GCD(_, _)
GCD(i, j) == IF j = 0 THEN i ELSE GCD(j, i % j)

Rat(n, d) ==
    LET s == IF d < 0 THEN -1 ELSE 1
        g == GCD(Abs(n), Abs(d))
    IN  [n |-> s * (n \div g), d |-> s * (d \div g)]

RInt(i) == [n |-> i, d |-> 1]

RZero == RInt(0)

ROne == RInt(1)

RNeg(a) == [n |-> -a.n, d |-> a.d]

RAdd(a, b) ==
    LET g == GCD(a.d, b.d)
    IN  Rat(a.n * (b.d \div g) + b.n * (a.d \div g), (a.d \div g) * b.d)

RSub(a, b) == RAdd(a, RNeg(b))

RMul(a, b) ==
    LET g1 == GCD(Abs(a.n), b.d)
        g2 == GCD(Abs(b.n), a.d)
    IN  IF a.n = 0 \/ b.n = 0 THEN RZero
        ELSE [n |-> (a.n \div g1) * (b.n \div g2),
              d |-> (a.d \div g2) * (b.d \div g1)]

RInv(a) == IF a.n < 0 THEN [n |-> -a.d, d |-> -a.n] ELSE [n |-> a.d, d |-> a.n]

RDiv(a, b) == RMul(a, RInv(b))

RAbs(a) == [n |-> Abs(a.n), d |-> a.d]

RLess(a, b) ==
    LET g == GCD(a.d, b.d)
    IN  a.n * (b.d \div g) < b.n * (a.d \div g)

RLeq(a, b) == ~RLess(b, a)

RECURSIVE RPow(_, _)
RPow(a, k) == IF k = 0 THEN ROne ELSE RMul(a, RPow(a, k - 1))


(***************************************************************************)
(* Python floats: a finite rational, +inf, -inf or NaN; None is Python's   *)
(* None (an Optional[float] that is absent).  All are records of one       *)
(* shape.                                                                  *)
(***************************************************************************)
Fin(r) == [kind |-> "fin", n |-> r.n, d |-> r.d]

Inf == [kind |-> "inf", n |-> 1, d |-> 1]

NegInf == [kind |-> "ninf", n |-> -1, d |-> 1]

NaN == [kind |-> "nan", n |-> 0, d |-> 1]

None == [kind |-> "none", n |-> 0, d |-> 1]

ToRat(x) == [n |-> x.n, d |-> x.d]

FSign(x) == IF x.n > 0 THEN 1 ELSE IF x.n < 0 THEN -1 ELSE 0

FSigned(s) == IF s > 0 THEN Inf ELSE IF s < 0 THEN NegInf ELSE NaN

IsInfinite(x) == x.kind \in {"inf", "ninf"}

\* a - b
FSub(a, b) ==
    IF a.kind = "nan" \/ b.kind = "nan" THEN NaN
    ELSE IF IsInfinite(a) /\ IsInfinite(b) THEN (IF a.kind = b.kind THEN NaN ELSE a)
    ELSE IF IsInfinite(a) THEN a
    ELSE IF IsInfinite(b) THEN FSigned(-FSign(b))
    ELSE Fin(RSub(ToRat(a), ToRat(b)))

\* a / b, for b # 0
FDiv(a, b) ==
    IF a.kind = "nan" \/ b.kind = "nan" THEN NaN
    ELSE IF IsInfinite(a) /\ IsInfinite(b) THEN NaN
    ELSE IF IsInfinite(a) THEN FSigned(FSign(a) * FSign(b))
    ELSE IF IsInfinite(b) THEN Fin(RZero)
    ELSE Fin(RDiv(ToRat(a), ToRat(b)))

\* a * b
FMul(a, b) ==
    IF a.kind = "nan" \/ b.kind = "nan" THEN NaN
    ELSE IF IsInfinite(a) \/ IsInfinite(b) THEN FSigned(FSign(a) * FSign(b))
    ELSE Fin(RMul(ToRat(a), ToRat(b)))

FAbs(a) ==
    IF a.kind = "nan" THEN NaN
    ELSE IF IsInfinite(a) THEN Inf
    ELSE Fin(RAbs(ToRat(a)))

\* a < b; every comparison with NaN is false
FLess(a, b) ==
    IF a.kind = "nan" \/ b.kind = "nan" THEN FALSE
    ELSE IF a.kind = "inf" \/ b.kind = "ninf" THEN FALSE
    ELSE IF a.kind = "ninf" \/ b.kind = "inf" THEN TRUE
    ELSE RLess(ToRat(a), ToRat(b))

\* a >= b
FGeq(a, b) ==
    IF a.kind = "nan" \/ b.kind = "nan" THEN FALSE ELSE ~FLess(a, b)

\* a == 0
FIsZero(a) == a.kind = "fin" /\ a.n = 0

(***************************************************************************)
(* Confidence bounds:  base + marg / sqrt(rad)  with rational base and     *)
(* marg and a positive integer rad, or +inf.  A rational r is the value    *)
(* with marg = 0.                                                          *)
(***************************************************************************)
ConfRat(r) == [kind |-> "fin", base |-> r, marg |-> RZero, rad |-> 1]

ConfInf == [kind |-> "inf", base |-> RZero, marg |-> RZero, rad |-> 1]

ConfSurd(base, marg, rad) ==
    IF marg.n = 0 THEN ConfRat(base)
    ELSE [kind |-> "fin", base |-> base, marg |-> marg, rad |-> rad]

\* x > c / sqrt(rad)  for rationals x > 0, c >= 0:  rad > (c / x)^2
GreaterThanOverSqrt(x, c, rad) ==
    LET q == RDiv(c, x) IN RLess(RMul(q, q), RInt(rad))

(***************************************************************************)
(* QueueModel (src/queueModel.py).                                         *)
(***************************************************************************)
\* overload reported from full utilization only (a variant)
OverloadAtFullUtilization == [n |-> 1, d |-> 1]

\* rho >= 0.95: the system is reported as overloaded
OverloadRho == Rat(19, 20)

\* rho < 0.5: status low
LowRho == Rat(1, 2)

\* rho < 0.75: status medium
MediumRho == Rat(3, 4)

\* z_score = 1.96
ZScore == Rat(49, 25)

\* confidence_lower of an overloaded result: 15.0
OverloadedLower == RInt(15)

WaitTimeResult(wait_minutes, confidence_lower, confidence_upper, utilization, status) ==
    [wait_minutes |-> wait_minutes,
     confidence_lower |-> confidence_lower,
     confidence_upper |-> confidence_upper,
     utilization |-> utilization,
     status |-> status]

NoResult == WaitTimeResult(NaN, ConfRat(RZero), ConfRat(RZero), RZero, "none")

\* the outcome of a call: a returned value, or the exception it raised
Returned(v) == [raised |-> "", value |-> v]

Raised(e) == [raised |-> e, value |-> NoResult]

RECURSIVE GetFactorial(_)
GetFactorial(n) == IF n = 0 THEN 1 ELSE n * GetFactorial(n - 1)

\* the result both paths return when rho >= 0.95
Overloaded(rho) ==
    WaitTimeResult(Inf, ConfRat(OverloadedLower), ConfInf, rho, "overloaded")

\* the status with "<=" in place of "<" (a variant)
StatusOfInclusive(rho) ==
    IF RLeq(rho, LowRho) THEN "low"
    ELSE IF RLeq(rho, MediumRho) THEN "medium"
    ELSE "high"

StatusOf(rho) ==
    IF RLess(rho, LowRho) THEN "low"
    ELSE IF RLess(rho, MediumRho) THEN "medium"
    ELSE "high"

\* margin = z_score * (W / sqrt(max(sample_count, 1))), as the numerator of
\* margin = num / sqrt(rad)
MarginNum(W) == RMul(ZScore, W)

\* the margin taken as for one sample, whatever sample_count is (a variant)
MarginRadOneSample(sample_count) == 1

MarginRad(sample_count) == Max(sample_count, 1)

\* ci_lower = W - margin, without the max (a variant)
CiLowerUnclamped(W, sample_count) ==
    ConfSurd(W, RNeg(MarginNum(W)), MarginRad(sample_count))

\* ci_lower = max(0.0, W - margin)
CiLower(W, sample_count) ==
    IF W.n > 0 /\ GreaterThanOverSqrt(W, MarginNum(W), MarginRad(sample_count))
    THEN ConfSurd(W, RNeg(MarginNum(W)), MarginRad(sample_count))
    ELSE ConfRat(RZero)

\* ci_upper = W + margin
CiUpper(W, sample_count) == ConfSurd(W, MarginNum(W), MarginRad(sample_count))

Finished(W, rho, sample_count) ==
    WaitTimeResult(Fin(W), CiLower(W, sample_count), CiUpper(W, sample_count),
                   rho, StatusOf(rho))

\* _calculate_mm1 returning the time in queue without the service time (a
\* variant)
CalculateMM1QueueOnly(arrival_rate, service_rate, sample_count) ==
    LET rho == RDiv(arrival_rate, service_rate)
        Wq  == RDiv(rho, RMul(service_rate, RSub(ROne, rho)))
    IN  IF RLeq(OverloadRho, rho) THEN Returned(Overloaded(rho))
        ELSE Returned(Finished(Wq, rho, sample_count))

CalculateMM1(arrival_rate, service_rate, sample_count) ==
    LET rho == RDiv(arrival_rate, service_rate)
        Wq  == RDiv(rho, RMul(service_rate, RSub(ROne, rho)))
        W   == RAdd(Wq, RDiv(ROne, service_rate))
    IN  IF RLeq(OverloadRho, rho) THEN Returned(Overloaded(rho))
        ELSE Returned(Finished(W, rho, sample_count))

\* sum((a ** n) / factorial(n) for n in range(k))
RECURSIVE SumTerm(_, _)
SumTerm(a, k) ==
    IF k <= 0 THEN RZero
    ELSE RAdd(SumTerm(a, k - 1), RDiv(RPow(a, k - 1), RInt(GetFactorial(k - 1))))

\* _calculate_mmk with the probability of waiting taken without the factor
\* P0 (a variant)
CalculateMMKWithoutP0(k, arrival_rate, service_rate, sample_count) ==
    LET rho       == RDiv(arrival_rate, RMul(RInt(k), service_rate))
        a         == RDiv(arrival_rate, service_rate)
        C         == RMul(RDiv(RPow(a, k), RInt(GetFactorial(k))),
                          RDiv(ROne, RSub(ROne, rho)))
        Wq        == RDiv(C, RSub(RMul(RInt(k), service_rate), arrival_rate))
        W         == RAdd(Wq, RDiv(ROne, service_rate))
    IN  IF k = 0 THEN Raised("ZeroDivisionError")
        ELSE IF RLeq(OverloadRho, rho) THEN Returned(Overloaded(rho))
        ELSE IF k < 0 THEN Raised("ValueError: factorial() not defined for negative values")
        ELSE Returned(Finished(W, rho, sample_count))

CalculateMMK(k, arrival_rate, service_rate, sample_count) ==
    LET rho       == RDiv(arrival_rate, RMul(RInt(k), service_rate))
        a         == RDiv(arrival_rate, service_rate)
        sum_term  == SumTerm(a, k)
        last_term == RDiv(RPow(a, k),
                          RMul(RInt(GetFactorial(k)), RSub(ROne, rho)))
        P0        == RDiv(ROne, RAdd(sum_term, last_term))
        C         == RMul(RMul(RDiv(RPow(a, k), RInt(GetFactorial(k))),
                               RDiv(ROne, RSub(ROne, rho))), P0)
        Wq        == RDiv(C, RSub(RMul(RInt(k), service_rate), arrival_rate))
        W         == RAdd(Wq, RDiv(ROne, service_rate))
    IN  IF k = 0 THEN Raised("ZeroDivisionError")
        ELSE IF RLeq(OverloadRho, rho) THEN Returned(Overloaded(rho))
        ELSE IF k < 0 THEN Raised("ValueError: factorial() not defined for negative values")
        ELSE Returned(Finished(W, rho, sample_count))

\* calculate_wait_time with the check of service_rate ahead of the
\* shortcut for no arrivals (a variant)
CalculateWaitTimeRateFirst(num_servers, arrival_rate, service_rate, sample_count) ==
    IF service_rate.n <= 0
    THEN Raised("ValueError: Service rate must be positive")
    ELSE IF arrival_rate.n <= 0
    THEN Returned(WaitTimeResult(Fin(RZero), ConfRat(RZero), ConfRat(RZero), RZero, "low"))
    ELSE IF num_servers = 1
    THEN CalculateMM1(arrival_rate, service_rate, sample_count)
    ELSE CalculateMMK(num_servers, arrival_rate, service_rate, sample_count)

\* calculate_wait_time without its check of service_rate (a variant the
\* properties on rejected configurations tell from the code)
CalculateWaitTimeUnchecked(num_servers, arrival_rate, service_rate, sample_count) ==
    IF arrival_rate.n <= 0
    THEN Returned(WaitTimeResult(Fin(RZero), ConfRat(RZero), ConfRat(RZero), RZero, "low"))
    ELSE IF num_servers = 1
    THEN CalculateMM1(arrival_rate, service_rate, sample_count)
    ELSE CalculateMMK(num_servers, arrival_rate, service_rate, sample_count)

\* calculate_wait_time with the single-server formula for every number of
\* servers (a variant)
CalculateWaitTimeSingleServer(num_servers, arrival_rate, service_rate, sample_count) ==
    IF arrival_rate.n <= 0
    THEN Returned(WaitTimeResult(Fin(RZero), ConfRat(RZero), ConfRat(RZero), RZero, "low"))
    ELSE IF service_rate.n <= 0
    THEN Raised("ValueError: Service rate must be positive")
    ELSE CalculateMM1(arrival_rate, service_rate, sample_count)

CalculateWaitTime(num_servers, arrival_rate, service_rate, sample_count) ==
    IF arrival_rate.n <= 0
    THEN Returned(WaitTimeResult(Fin(RZero), ConfRat(RZero), ConfRat(RZero), RZero, "low"))
    ELSE IF service_rate.n <= 0
    THEN Raised("ValueError: Service rate must be positive")
    ELSE IF num_servers = 1
    THEN CalculateMM1(arrival_rate, service_rate, sample_count)
    ELSE CalculateMMK(num_servers, arrival_rate, service_rate, sample_count)

(***************************************************************************)
(* ArrivalRateSmoother (src/queueModel.py): current_rate is None or a      *)
(* float.                                                                  *)
(***************************************************************************)
\* alpha = 0.3
Alpha == Rat(3, 10)

\* a smoother that keeps the latest rate only (a variant the end-to-end
\* properties tell from the code)
LatestRate(current_rate, new_rate) == Fin(new_rate)

\* update with the first observation smoothed against a rate of 0 (a
\* variant)
SmootherUpdateFromZero(alpha, current_rate, new_rate) ==
    IF current_rate = None THEN Fin(RMul(alpha, new_rate))
    ELSE Fin(RAdd(RMul(alpha, new_rate),
                  RMul(RSub(ROne, alpha), ToRat(current_rate))))

\* update that takes an observation of 0 as the new rate at once (a variant)
SmootherUpdateZeroResets(alpha, current_rate, new_rate) ==
    IF current_rate = None \/ new_rate.n = 0 THEN Fin(new_rate)
    ELSE Fin(RAdd(RMul(alpha, new_rate),
                  RMul(RSub(ROne, alpha), ToRat(current_rate))))

\* the value update(new_rate) stores and returns, for a smoother built with
\* ArrivalRateSmoother(alpha)
SmootherUpdateWith(alpha, current_rate, new_rate) ==
    IF current_rate = None THEN Fin(new_rate)
    ELSE Fin(RAdd(RMul(alpha, new_rate),
                  RMul(RSub(ROne, alpha), ToRat(current_rate))))

\* get_rate(): the stored value
GetRate(current_rate) == current_rate

\* the value update(new_rate) stores and returns
SmootherUpdate(current_rate, new_rate) ==
    IF current_rate = None THEN Fin(new_rate)
    ELSE Fin(RAdd(RMul(Alpha, new_rate),
                  RMul(RSub(ROne, Alpha), ToRat(current_rate))))

(***************************************************************************)
(* MQTTEventConsumer._is_significant_change (src/consumer.py).             *)
(***************************************************************************)
\* the gate with "not (percent_change < threshold_percent)" as its last
\* line: a NaN percentage counts as significant (a variant)
IsSignificantChangeUnlessBelow(old_wait, new_wait, threshold_percent) ==
    IF old_wait = None THEN TRUE
    ELSE IF FIsZero(old_wait) THEN FLess(Fin(Rat(1, 2)), new_wait)
    ELSE LET percent_change ==
                 FAbs(FMul(FDiv(FSub(new_wait, old_wait), old_wait), Fin(RInt(100))))
         IN  percent_change.kind = "nan" \/ ~FLess(percent_change, Fin(threshold_percent))

\* the gate with "percent_change > threshold_percent" as its last line (a
\* variant)
IsSignificantChangeStrict(old_wait, new_wait, threshold_percent) ==
    IF old_wait = None THEN TRUE
    ELSE IF FIsZero(old_wait) THEN FLess(Fin(Rat(1, 2)), new_wait)
    ELSE LET percent_change ==
                 FAbs(FMul(FDiv(FSub(new_wait, old_wait), old_wait), Fin(RInt(100))))
         IN  FLess(Fin(threshold_percent), percent_change)

\* "percent_change >= threshold_percent" as the code writes it
IsSignificantChange(old_wait, new_wait, threshold_percent) ==
    IF old_wait = None THEN TRUE
    ELSE IF FIsZero(old_wait) THEN FLess(Fin(Rat(1, 2)), new_wait)
    ELSE LET percent_change ==
                 FAbs(FMul(FDiv(FSub(new_wait, old_wait), old_wait), Fin(RInt(100))))
         IN  FGeq(percent_change, Fin(threshold_percent))

(***************************************************************************)
(* Bounds of the model and the inputs it draws.                            *)
(***************************************************************************)
\* inbound messages of any kind in one run
MaxMessages == 3

\* failures of the database or the broker injected in one run
MaxFaults == 1

\* rows stored by insert_poi in one run
MaxInserts == 1

\* EventConsumer(window_minutes=5)
WindowMinutes == 5

\* threshold_percent: float = 15.0
DefaultThreshold == RInt(15)

\* A facility_id is given as the list of its lower-case parts, i.e. as
\* facility_id.lower().replace('-', '_').split('_') leaves it; the empty
\* string is the empty list.
QueueUpdate(facility_type, facility_id, queue_length) ==
    [json |-> TRUE, event_type |-> "queue_update", facility_type |-> facility_type,
     facility_id |-> facility_id, queue_length |-> queue_length]

OtherMessage(json, event_type) ==
    [json |-> json, event_type |-> event_type, facility_type |-> "",
     facility_id |-> <<>>, queue_length |-> 0]

\* The restroom is observed with varying queue lengths (raw rates 0, 1.8, 2
\* and 3 per minute), under two spellings of its id; the bar is in steady
\* state (raw rate 4 per minute).
Messages ==
    {QueueUpdate("TOILET", <<"wc", "norte", "1">>, q) : q \in {0, 9, 10, 15}}
    \cup {QueueUpdate("TOILET", <<"toilet", "north", "1">>, 10)}
    \cup {QueueUpdate("BAR", <<"bar", "sul", "1">>, 20)}
    \cup {QueueUpdate("BAR", <<>>, 5),
          [QueueUpdate("TOILET", <<"wc", "norte", "1">>, 10)
               EXCEPT !.event_type = "queue_snapshot"],
          OtherMessage(TRUE, "gate_passage"),
          OtherMessage(TRUE, "heartbeat"),
          OtherMessage(FALSE, "")}

(***************************************************************************)
(* MQTTEventConsumer._convert_facility_id.  A POI id is the list of the    *)
(* parts its '-' joins: "WC-Norte-L0-1" is <<"WC", "Norte", "L0", "1">>.   *)
(***************************************************************************)
NoPoi == <<>>

\* str.title() on the parts the model uses
Title(part) ==
    CASE part = "store" -> "Store"
      [] part = "centro" -> "Centro"
      [] OTHER -> part

TypeMap(part) ==
    CASE part = "bar" -> "Food"
      [] part \in {"toilet", "wc", "restroom"} -> "WC"
      [] OTHER -> Title(part)

DirectionMap(part) ==
    CASE part \in {"norte", "north"} -> "Norte"
      [] part \in {"sul", "south"} -> "Sul"
      [] part \in {"este", "east"} -> "Este"
      [] part \in {"oeste", "west"} -> "Oeste"
      [] OTHER -> Title(part)

IsDigit(part) == part \in {"0", "1", "2", "3", "4", "5", "6", "7", "8", "9"}

ConvertFacilityId(facility_type, facility_id) ==
    LET parts     == facility_id
        poi_type  == TypeMap(parts[1])
        direction == DirectionMap(parts[2])
        number    == IF Len(parts) > 2 /\ IsDigit(parts[Len(parts)])
                     THEN parts[Len(parts)] ELSE "1"
    IN  IF facility_id = <<>> THEN NoPoi
        ELSE IF Len(parts) < 2 THEN facility_id
        ELSE IF poi_type = "WC" THEN <<poi_type, direction, "L0", number>>
        ELSE <<poi_type, direction, number>>

\* the facility keys the messages lead to
PoiIds ==
    {ConvertFacilityId(m.facility_type, m.facility_id) :
        m \in {x \in Messages : x.event_type = "queue_update"}} \ {NoPoi}

Restroom == <<"WC", "Norte", "L0", "1">>

Bar == <<"Food", "Sul", "1">>

(***************************************************************************)
(* The pois table (src/db/models.py POI) and the rows insert_poi stores.   *)
(***************************************************************************)
PoiRow(num_servers, service_rate) ==
    [present |-> TRUE, num_servers |-> num_servers, service_rate |-> service_rate]

NoPoiRow == [present |-> FALSE, num_servers |-> 0, service_rate |-> RZero]

PoiData ==
    {[id |-> Restroom, row |-> PoiRow(1, RInt(3))],
     [id |-> Restroom, row |-> PoiRow(1, RInt(-1))],
     [id |-> Restroom, row |-> PoiRow(1, RZero)],
     [id |-> Bar, row |-> PoiRow(8, Rat(1, 2))],
     [id |-> Bar, row |-> PoiRow(2, RInt(3))],
     [id |-> Bar, row |-> PoiRow(-2, RInt(3))]}

(***************************************************************************)
(* The queue_states table (src/db/models.py QueueState): one row per POI.  *)
(***************************************************************************)
QueueStateRow(arrival_rate, result, sample_count) ==
    [present |-> TRUE,
     arrival_rate |-> arrival_rate,
     wait_minutes |-> result.wait_minutes,
     confidence_lower |-> result.confidence_lower,
     confidence_upper |-> result.confidence_upper,
     sample_count |-> sample_count,
     status |-> result.status]

NoQueueState ==
    [present |-> FALSE, arrival_rate |-> NaN, wait_minutes |-> NaN,
     confidence_lower |-> ConfRat(RZero), confidence_upper |-> ConfRat(RZero),
     sample_count |-> 0, status |-> "none"]

(***************************************************************************)
(* State.                                                                  *)
(***************************************************************************)
VARIABLES
    smoothers,      \* self.smoothers: POI id -> current_rate of its smoother
    queue_models,   \* self.queue_models: POI id -> the cached QueueModel
    pois,           \* table pois
    queue_states,   \* table queue_states
    stats,          \* self.stats
    outbox,         \* per POI, the updates handed to the broker, oldest first
    running,        \* self.running
    conn,           \* where start() is: none, connecting, up, backoff, ended
    client,         \* self.client is set
    pc,             \* where the handler of the message in hand is
    cur,            \* the local variables of that handler
    log,            \* per POI, the queue events processed so far (history)
    faults,         \* failures injected so far
    inserts,        \* rows stored by insert_poi so far
    probe,          \* arguments and result of a function applied on its own
    ignored         \* messages dropped as invalid or of another type (history)

vars == <<smoothers, queue_models, pois, queue_states, stats, outbox,
          running, conn, client, pc, cur, log, faults, inserts, probe, ignored>>

NoModel == [present |-> FALSE, num_servers |-> 0]

QueueModel(num_servers) == [present |-> TRUE, num_servers |-> num_servers]

NoCur ==
    [poi_id |-> NoPoi, facility_type |-> "", queue_length |-> 0,
     row |-> NoPoiRow, num_servers |-> 0, service_rate |-> RZero,
     smoothed_rate |-> NaN, model_servers |-> 0, result |-> NoResult,
     previous_state |-> NoQueueState, significant_change |-> FALSE]

\* no function is being applied on its own
NoProbe == [fn |-> "", old_wait |-> None, new_wait |-> NaN,
            threshold_percent |-> RZero, returned |-> FALSE, value |-> FALSE]

\* one processed queue event, as the history records it
LogEntry(c, outcome, published) ==
    [facility_type |-> c.facility_type, queue_length |-> c.queue_length,
     row |-> c.row, num_servers |-> c.num_servers, service_rate |-> c.service_rate,
     smoothed_rate |-> c.smoothed_rate, model_servers |-> c.model_servers,
     result |-> c.result, previous_state |-> c.previous_state,
     significant_change |-> c.significant_change,
     outcome |-> outcome, published |-> published]

InitPipeline ==
    /\ smoothers = [p \in PoiIds |-> None]
    /\ queue_models = [p \in PoiIds |-> NoModel]
    /\ pois \in {[p \in PoiIds |-> IF p = Restroom THEN PoiRow(1, RInt(3)) ELSE b] :
                    b \in {NoPoiRow, PoiRow(8, Rat(1, 2))}}
    /\ queue_states = [p \in PoiIds |-> NoQueueState]
    /\ stats = [messages_received |-> 0, messages_published |-> 0, errors |-> 0]
    /\ outbox = [p \in PoiIds |-> <<>>]
    /\ running = FALSE
    /\ conn = "none"
    /\ client = FALSE
    /\ pc = "idle"
    /\ cur = NoCur
    /\ log = [p \in PoiIds |-> <<>>]
    /\ faults = 0
    /\ inserts = 0
    /\ ignored = 0

Init == InitPipeline /\ probe = NoProbe

(***************************************************************************)
(* MQTTEventConsumer.start / stop: the connection loop.                    *)
(***************************************************************************)
\* start(): self.running = True, then the first pass of "while self.running"
Start ==
    /\ conn = "none"
    /\ running' = TRUE
    /\ conn' = "connecting"
    /\ UNCHANGED <<smoothers, queue_models, pois, queue_states, stats, outbox,
                   client, pc, cur, log, faults, inserts, probe, ignored>>

\* the client connects and subscribes: self.client = client
ConnectOk ==
    /\ conn = "connecting"
    /\ conn' = "up"
    /\ client' = TRUE
    /\ UNCHANGED <<smoothers, queue_models, pois, queue_states, stats, outbox,
                   running, pc, cur, log, faults, inserts, probe, ignored>>

\* connecting, or waiting for the next message, raises: the error is counted,
\* and start() sleeps 5 s only "if self.running"
ConnectionError ==
    /\ conn \in {"connecting", "up"}
    /\ pc = "idle"
    /\ faults < MaxFaults
    /\ faults' = faults + 1
    /\ stats' = [stats EXCEPT !.errors = @ + 1]
    /\ conn' = IF running THEN "backoff" ELSE "ended"
    /\ UNCHANGED <<smoothers, queue_models, pois, queue_states, outbox,
                   running, client, pc, cur, log, inserts, probe, ignored>>

\* the message stream ends without an error: back to "while self.running"
ConnectionClosed ==
    /\ conn = "up"
    /\ pc = "idle"
    /\ conn' = IF running THEN "connecting" ELSE "ended"
    /\ UNCHANGED <<smoothers, queue_models, pois, queue_states, stats, outbox,
                   running, client, pc, cur, log, faults, inserts, probe, ignored>>

\* variant: the loop opens the next connection without looking at running
RetryAlways ==
    /\ conn = "backoff"
    /\ conn' = "connecting"
    /\ UNCHANGED <<smoothers, queue_models, pois, queue_states, stats, outbox,
                   running, client, pc, cur, log, faults, inserts, probe, ignored>>

\* the sleep is over: "while self.running" is evaluated again
Retry ==
    /\ conn = "backoff"
    /\ conn' = IF running THEN "connecting" ELSE "ended"
    /\ UNCHANGED <<smoothers, queue_models, pois, queue_states, stats, outbox,
                   running, client, pc, cur, log, faults, inserts, probe, ignored>>

\* stop(): self.running = False
Stop ==
    /\ running
    /\ running' = FALSE
    /\ UNCHANGED <<smoothers, queue_models, pois, queue_states, stats, outbox,
                   conn, client, pc, cur, log, faults, inserts, probe, ignored>>

(***************************************************************************)
(* POIRepository.insert_poi: session.merge inserts the row or replaces it. *)
(***************************************************************************)
InsertPoi(poi_data) ==
    /\ inserts < MaxInserts
    /\ inserts' = inserts + 1
    /\ pois' = [pois EXCEPT ![poi_data.id] = poi_data.row]
    /\ UNCHANGED <<smoothers, queue_models, queue_states, stats, outbox,
                   running, conn, client, pc, cur, log, faults, probe, ignored>>

(***************************************************************************)
(* MQTTEventConsumer._on_message and _process_queue_event.  One action per *)
(* stretch of code between two awaits; the handler's position is pc.       *)
(***************************************************************************)
\* a loop that hands every message to a task of its own would always be
\* ready (a variant)
AlwaysReady == TRUE

\* "async for message in client.messages: await self._on_message(message)":
\* the next message is taken up when the handler of the previous one is done
LoopReady == pc = "idle"

\* one smoother shared by all facilities (a variant)
SharedKey(poi_id) == Restroom

\* self.smoothers[poi_id]
SmootherKey(poi_id) == poi_id

\* self.queue_models[poi_id]
ModelKey(poi_id) == poi_id

\* the row of queue_states a POI's state is kept in
StateKey(poi_id) == poi_id

\* num_servers of the configuration of this observation
NumServersOf(row, facility_type) ==
    IF ~row.present THEN (IF facility_type = "BAR" THEN 4 ELSE 8)
    ELSE IF row.num_servers # 0 THEN row.num_servers ELSE 4

\* the service_rate of the row as it is stored, without "or 0.5" (a variant)
ServiceRateAsStored(row, facility_type) ==
    IF ~row.present THEN (IF facility_type = "BAR" THEN Rat(2, 5) ELSE Rat(1, 2))
    ELSE row.service_rate

\* service_rate of the configuration of this observation
ServiceRateOf(row, facility_type) ==
    IF ~row.present THEN (IF facility_type = "BAR" THEN Rat(2, 5) ELSE Rat(1, 2))
    ELSE IF row.service_rate.n # 0 THEN row.service_rate ELSE Rat(1, 2)

\* arrival_rate = queue_length / (self.window_minutes or 1)
ArrivalRate(queue_length) ==
    Rat(queue_length, IF WindowMinutes # 0 THEN WindowMinutes ELSE 1)

\* "if poi_id not in self.queue_models: ... = QueueModel(num_servers)", then
\* "model = self.queue_models[poi_id]"
ModelFor(cached, num_servers) ==
    IF cached.present THEN cached ELSE QueueModel(num_servers)

\* previous_state.get('wait_minutes') if previous_state else None
PreviousWait(previous_state) ==
    IF previous_state.present THEN previous_state.wait_minutes ELSE None

\* "if significant_change or not previous_state"
ShouldPublish(significant_change, previous_state) ==
    significant_change \/ ~previous_state.present

\* a repository that inserts the row of a POI once and never replaces it (a
\* variant)
InsertQueueStateOnce(table, poi_id, arrival_rate, result, sample_count) ==
    IF table[StateKey(poi_id)].present THEN table
    ELSE [table EXCEPT ![StateKey(poi_id)] = QueueStateRow(arrival_rate, result, sample_count)]

\* a repository whose merge is not committed before the update is published
\* (a variant)
UpdateQueueStateUncommitted(table, poi_id, arrival_rate, result, sample_count) ==
    table

\* WaitTimeRepository.update_queue_state: the row merged into queue_states
UpdateQueueState(table, poi_id, arrival_rate, result, sample_count) ==
    [table EXCEPT ![StateKey(poi_id)] = QueueStateRow(arrival_rate, result, sample_count)]

\* the arguments of _publish_waittime_update (the payload rounds minutes and
\* ci95 to one decimal)
Update(c) ==
    [poi |-> c.poi_id, wait_minutes |-> c.result.wait_minutes,
     confidence_lower |-> c.result.confidence_lower,
     confidence_upper |-> c.result.confidence_upper,
     status |-> c.result.status, queue_length |-> c.queue_length]

\* the handler returns: the event is recorded and the loop goes on
Done(c, outcome, published) ==
    /\ pc' = "idle"
    /\ cur' = NoCur
    /\ log' = [log EXCEPT ![c.poi_id] = Append(@, LogEntry(c, outcome, published))]

\* a dispatch that takes every JSON message but a gate_passage for a queue
\* event (a variant)
IsQueueUpdateUnlessGate(m) == m.json /\ m.event_type # "gate_passage"

\* json.loads succeeds and "event_type == 'queue_update'"
IsQueueUpdate(m) == m.json /\ m.event_type = "queue_update"

\* the payload is not valid JSON, or its event_type is neither queue_update
\* nor gate_passage: _on_message returns without calling a handler
Ignored(m) == ~m.json \/ m.event_type \notin {"queue_update", "gate_passage"}

\* _on_message up to the first await of _process_queue_event
OnMessage(m) ==
    LET poi_id == ConvertFacilityId(m.facility_type, m.facility_id)
        queue  == IsQueueUpdate(m) /\ poi_id # NoPoi
    IN  /\ conn = "up"
        /\ LoopReady
        /\ stats.messages_received < MaxMessages
        /\ stats' = [stats EXCEPT !.messages_received = @ + 1]
        /\ IF queue
           THEN /\ pc' = "get_poi"
                /\ cur' = [NoCur EXCEPT !.poi_id = poi_id,
                                        !.facility_type = m.facility_type,
                                        !.queue_length = m.queue_length]
           ELSE /\ pc' = "idle"
                /\ cur' = NoCur
        /\ ignored' = IF Ignored(m) THEN ignored + 1 ELSE ignored
        /\ UNCHANGED <<smoothers, queue_models, pois, queue_states, outbox,
                       running, conn, client, log, faults, inserts, probe>>

\* get_poi_by_id returns; configuration, smoothing, get-or-create of the
\* model and the estimate follow without an await
Estimate ==
    LET poi_id       == cur.poi_id
        row          == pois[poi_id]
        num_servers  == NumServersOf(row, cur.facility_type)
        service_rate == ServiceRateOf(row, cur.facility_type)
        arrival_rate == ArrivalRate(cur.queue_length)
        smoothed     == SmootherUpdate(smoothers[SmootherKey(poi_id)], arrival_rate)
        model        == ModelFor(queue_models[ModelKey(poi_id)], num_servers)
        out          == CalculateWaitTime(model.num_servers, ToRat(smoothed),
                                          service_rate, cur.queue_length)
        c            == [cur EXCEPT !.row = row, !.num_servers = num_servers,
                                    !.service_rate = service_rate,
                                    !.smoothed_rate = smoothed,
                                    !.model_servers = model.num_servers,
                                    !.result = out.value]
    IN  /\ pc = "get_poi"
        /\ smoothers' = [smoothers EXCEPT ![SmootherKey(poi_id)] = smoothed]
        /\ queue_models' = [queue_models EXCEPT ![ModelKey(poi_id)] = model]
        /\ IF out.raised = ""
           THEN /\ pc' = "get_state"
                /\ cur' = c
                /\ UNCHANGED <<stats, log>>
           ELSE /\ stats' = [stats EXCEPT !.errors = @ + 1]
                /\ Done(c, out.raised, "none")
        /\ UNCHANGED <<pois, queue_states, outbox, running, conn, client, faults, inserts, probe, ignored>>

\* get_queue_state_raw returns; the change gate is evaluated and
\* update_queue_state is called
ReadState ==
    LET previous_state == queue_states[StateKey(cur.poi_id)]
        significant    == IsSignificantChange(PreviousWait(previous_state),
                                              cur.result.wait_minutes, DefaultThreshold)
    IN  /\ pc = "get_state"
        /\ pc' = "update"
        /\ cur' = [cur EXCEPT !.previous_state = previous_state,
                              !.significant_change = significant]
        /\ UNCHANGED <<smoothers, queue_models, pois, queue_states, stats, outbox,
                       running, conn, client, log, faults, inserts, probe, ignored>>

\* update_queue_state has merged and committed the row; the update is
\* published if the change is significant or there was no previous state
WriteState ==
    /\ pc = "update"
    /\ queue_states' = UpdateQueueState(queue_states, cur.poi_id, cur.smoothed_rate,
                                        cur.result, cur.queue_length)
    /\ IF ~ShouldPublish(cur.significant_change, cur.previous_state)
       THEN Done(cur, "ok", "none")
       ELSE IF ~client
       THEN Done(cur, "ok", "skipped")
       ELSE /\ pc' = "publish"
            /\ UNCHANGED <<cur, log>>
    /\ UNCHANGED <<smoothers, queue_models, pois, stats, outbox,
                   running, conn, client, faults, inserts, probe, ignored>>

\* self.client.publish returns and the update is counted twice (a variant)
PublishCountedTwice ==
    /\ pc = "publish"
    /\ outbox' = [outbox EXCEPT ![cur.poi_id] = Append(@, Update(cur))]
    /\ stats' = [stats EXCEPT !.messages_published = @ + 2]
    /\ Done(cur, "ok", "sent")
    /\ UNCHANGED <<smoothers, queue_models, pois, queue_states,
                   running, conn, client, faults, inserts, probe, ignored>>

\* self.client.publish returns
Publish ==
    /\ pc = "publish"
    /\ outbox' = [outbox EXCEPT ![cur.poi_id] = Append(@, Update(cur))]
    /\ stats' = [stats EXCEPT !.messages_published = @ + 1]
    /\ Done(cur, "ok", "sent")
    /\ UNCHANGED <<smoothers, queue_models, pois, queue_states,
                   running, conn, client, faults, inserts, probe, ignored>>

\* self.client.publish raises and the except clause only logs (a variant)
PublishFailsUncounted ==
    /\ pc = "publish"
    /\ faults < MaxFaults
    /\ faults' = faults + 1
    /\ Done(cur, "ok", "failed")
    /\ UNCHANGED <<smoothers, queue_models, pois, queue_states, stats, outbox,
                   running, conn, client, inserts, probe, ignored>>

\* self.client.publish raises: caught in _publish_waittime_update
PublishFails ==
    /\ pc = "publish"
    /\ faults < MaxFaults
    /\ faults' = faults + 1
    /\ stats' = [stats EXCEPT !.errors = @ + 1]
    /\ Done(cur, "ok", "failed")
    /\ UNCHANGED <<smoothers, queue_models, pois, queue_states, outbox,
                   running, conn, client, inserts, probe, ignored>>

\* a failure of the database that also discards the smoother of the POI (a
\* variant)
DbFailsDiscardsSmoother ==
    /\ pc \in {"get_poi", "get_state", "update"}
    /\ faults < MaxFaults
    /\ faults' = faults + 1
    /\ stats' = [stats EXCEPT !.errors = @ + 1]
    /\ smoothers' = [smoothers EXCEPT ![SmootherKey(cur.poi_id)] = None]
    /\ Done(cur, IF pc = "get_poi" THEN "db_error: get_poi_by_id"
                  ELSE IF pc = "get_state" THEN "db_error: get_queue_state_raw"
                  ELSE "db_error: update_queue_state", "none")
    /\ UNCHANGED <<queue_models, pois, queue_states, outbox,
                   running, conn, client, inserts, probe, ignored>>

\* a query or the commit of the database raises: get_db rolls back and
\* re-raises, _process_queue_event counts the error
DbFails ==
    /\ pc \in {"get_poi", "get_state", "update"}
    /\ faults < MaxFaults
    /\ faults' = faults + 1
    /\ stats' = [stats EXCEPT !.errors = @ + 1]
    /\ Done(cur, IF pc = "get_poi" THEN "db_error: get_poi_by_id"
                  ELSE IF pc = "get_state" THEN "db_error: get_queue_state_raw"
                  ELSE "db_error: update_queue_state", "none")
    /\ UNCHANGED <<smoothers, queue_models, pois, queue_states, outbox,
                   running, conn, client, inserts, probe, ignored>>

Next ==
    \/ Start
    \/ ConnectOk
    \/ ConnectionError
    \/ ConnectionClosed
    \/ Retry
    \/ Stop
    \/ \E d \in PoiData : InsertPoi(d)
    \/ \E m \in Messages : OnMessage(m)
    \/ Estimate
    \/ ReadState
    \/ WriteState
    \/ Publish
    \/ PublishFails
    \/ DbFails

Spec == Init /\ [][Next]_vars

(***************************************************************************)
(* Properties.  The history variables log and outbox are read here only.   *)
(***************************************************************************)
\* the wait of the update most recently handed to the broker for a POI
LastPublished(poi_id) ==
    IF outbox[poi_id] = <<>> THEN None
    ELSE outbox[poi_id][Len(outbox[poi_id])].wait_minutes

\* the handler has evaluated the gate and is about to store and publish
Deciding == pc = "update"

\* the decision the handler in hand has taken
Decision == ShouldPublish(cur.significant_change, cur.previous_state)

IsFinite(x) == x.kind = "fin"

\* an event the database and the broker did not fail on
NoFault(e) ==
    /\ e.outcome \notin {"db_error: get_poi_by_id", "db_error: get_queue_state_raw",
                         "db_error: update_queue_state"}
    /\ e.published # "failed"

\* C1: the decision to publish is the change gate applied to the wait of
\* the facility's most recently published update (no update published yet:
\* publish), not to a computed wait that was never published.  Stated for
\* runs without failures and finite waits.
C1_DecisionAgainstLastPublished ==
    (Deciding /\ faults = 0 /\ IsFinite(cur.result.wait_minutes)
        /\ LastPublished(cur.poi_id).kind \in {"none", "fin"})
    => (Decision <=> IsSignificantChange(LastPublished(cur.poi_id),
                                         cur.result.wait_minutes, DefaultThreshold))

\* no state of the POI was stored before its i-th event
NoStateBefore(poi_id, i) == \A j \in 1..(i - 1) : log[poi_id][j].outcome # "ok"

\* an event was processed with no negative number: neither the service_rate
\* of the row read for it nor the server count of the model used for it
ValidConfig(e) ==
    /\ ~e.row.present \/ e.row.service_rate.n >= 0
    /\ e.model_servers > 0

IsOverloaded(wait) == wait.kind = "inf"

\* C3: when the stored wait is finite and the new one is +inf, or the
\* stored one is +inf and the new one finite, the change is significant and
\* the update is published.
C3_OverloadTransitionPublished ==
    (/\ Deciding
     /\ cur.previous_state.present
     /\ IsOverloaded(cur.previous_state.wait_minutes) # IsOverloaded(cur.result.wait_minutes))
    => (cur.significant_change /\ Decision)

\* the first two events of the restroom: raw rates 0 and 2 per minute, one
\* server, service rate 3, nothing failing
C4_Scenario ==
    /\ Len(log[Restroom]) >= 2
    /\ \A i \in 1..2 : /\ log[Restroom][i].row = PoiRow(1, RInt(3))
                       /\ NoFault(log[Restroom][i])
    /\ ArrivalRate(log[Restroom][1].queue_length) = RZero
    /\ ArrivalRate(log[Restroom][2].queue_length) = RInt(2)

\* C4 (as stated): with one server, service rate 3.0 and raw arrival rates
\* 0 and then 2.0, the first two observations are both published and the
\* status goes from low to medium.
C4_BothPublishedLowThenMedium ==
    C4_Scenario
    => (/\ log[Restroom][1].published = "sent"
        /\ log[Restroom][1].result.status = "low"
        /\ log[Restroom][2].published = "sent"
        /\ log[Restroom][2].result.status = "medium")

\* C4 (amended): with one server, service rate 3.0 and raw arrival rates 0
\* and then 2.0, the first observation is published with wait 0 and status
\* low; the second is smoothed to 0.6 per minute, has wait 5/12 min and
\* status low, is stored and is not published.
C4_SecondSmoothedLowNotPublished ==
    C4_Scenario
    => (/\ log[Restroom][1].published = "sent"
        /\ log[Restroom][1].result.status = "low"
        /\ log[Restroom][1].result.wait_minutes = Fin(RZero)
        /\ log[Restroom][2].smoothed_rate = Fin(Rat(3, 5))
        /\ log[Restroom][2].result.wait_minutes = Fin(Rat(5, 12))
        /\ log[Restroom][2].result.status = "low"
        /\ log[Restroom][2].outcome = "ok"
        /\ log[Restroom][2].published = "none")

\* C4 (witness): the two observations have been processed and the second
\* one is what the table holds
C4_ScenarioProcessed ==
    /\ C4_Scenario
    /\ Len(log[Restroom]) = 2
    /\ queue_states[Restroom].wait_minutes = Fin(Rat(5, 12))
    /\ Len(outbox[Restroom]) = 1

\* the first three events of the bar: raw rate 4 per minute each, eight
\* servers, service rate 0.5, nothing failing
C5_Scenario ==
    /\ Len(log[Bar]) >= 3
    /\ \A i \in 1..3 : /\ log[Bar][i].row = PoiRow(8, Rat(1, 2))
                       /\ ArrivalRate(log[Bar][i].queue_length) = RInt(4)
                       /\ NoFault(log[Bar][i])

\* C5: with eight servers, service rate 0.5 and raw arrival rates 4, 4, 4
\* every result is overloaded with wait +inf; the first one is published,
\* the second and the third are not.
C5_OnlyFirstOverloadPublished ==
    C5_Scenario
    => (/\ \A i \in 1..3 : /\ log[Bar][i].outcome = "ok"
                           /\ log[Bar][i].result.status = "overloaded"
                           /\ log[Bar][i].result.wait_minutes = Inf
        /\ log[Bar][1].published = "sent"
        /\ log[Bar][2].published = "none"
        /\ log[Bar][3].published = "none")

\* C5 (witness): the three observations have been processed and one update
\* of the bar has gone out
C5_ScenarioProcessed ==
    /\ C5_Scenario
    /\ Len(outbox[Bar]) = 1
    /\ outbox[Bar][1].status = "overloaded"
    /\ queue_states[Bar].wait_minutes = Inf

(***************************************************************************)
(* The change gate applied on its own: the arguments are drawn from the    *)
(* waits the estimates produce (0, positive, +inf) and None; the pipeline  *)
(* is left as it starts.                                                   *)
(***************************************************************************)
GateName == "_is_significant_change"

GateOldWaits ==
    {None, Inf} \cup {Fin(r) : r \in {RZero, Rat(1, 2), RInt(10), RInt(12)}}

GateNewWaits ==
    {Inf} \cup {Fin(r) : r \in {RZero, Rat(1, 2), Rat(3, 5), RInt(8), Rat(17, 2),
                                RInt(10), RInt(11), Rat(23, 2), RInt(12)}}

GateThresholds == {DefaultThreshold, RInt(20)}

GateInit ==
    /\ InitPipeline
    /\ probe \in {[fn |-> GateName, old_wait |-> o, new_wait |-> n,
                   threshold_percent |-> t, returned |-> FALSE, value |-> FALSE] :
                     o \in GateOldWaits, n \in GateNewWaits, t \in GateThresholds}

\* the call returns
ApplyGate ==
    /\ probe.fn = GateName
    /\ ~probe.returned
    /\ probe' = [probe EXCEPT !.returned = TRUE,
                              !.value = IsSignificantChange(probe.old_wait, probe.new_wait,
                                                            probe.threshold_percent)]
    /\ UNCHANGED <<smoothers, queue_models, pois, queue_states, stats, outbox,
                   running, conn, client, pc, cur, log, faults, inserts, ignored>>

GateNext == ApplyGate

SpecGate == GateInit /\ [][GateNext]_vars

\* |new - old| / old * 100 >= threshold, in floating point
RelativeChangeAtLeast(old_wait, new_wait, threshold_percent) ==
    FGeq(FMul(FDiv(FAbs(FSub(new_wait, old_wait)), old_wait), Fin(RInt(100))),
         Fin(threshold_percent))

GateCalled(old_wait, new_wait, threshold_percent) ==
    /\ probe.returned
    /\ probe.old_wait = old_wait
    /\ probe.new_wait = new_wait
    /\ probe.threshold_percent = threshold_percent

\* the pipeline is as it was before the call
GateTouchedNothing ==
    /\ smoothers = [p \in PoiIds |-> None]
    /\ queue_states = [p \in PoiIds |-> NoQueueState]
    /\ outbox = [p \in PoiIds |-> <<>>]
    /\ stats = [messages_received |-> 0, messages_published |-> 0, errors |-> 0]

\* C6: the gate returns true when old is None; when old = 0, exactly when
\* new > 0.5; for every other old, exactly when
\* |new - old| / old * 100 >= threshold, so that at threshold 15 the change
\* 10 -> 11 is not significant and 10 -> 12 is.  The call changes no state.
C6_GateContract ==
    /\ probe.returned
       => (probe.value <=>
              IF probe.old_wait = None THEN TRUE
              ELSE IF FIsZero(probe.old_wait) THEN FLess(Fin(Rat(1, 2)), probe.new_wait)
              ELSE RelativeChangeAtLeast(probe.old_wait, probe.new_wait,
                                         probe.threshold_percent))
    /\ GateCalled(Fin(RInt(10)), Fin(RInt(11)), DefaultThreshold) => ~probe.value
    /\ GateCalled(Fin(RInt(10)), Fin(RInt(12)), DefaultThreshold) => probe.value
    /\ GateTouchedNothing

\* C6 (witness): the gate has returned true for a change of exactly the
\* threshold, 10 -> 11.5 at 15 percent
C6_GateAtThreshold ==
    GateCalled(Fin(RInt(10)), Fin(Rat(23, 2)), DefaultThreshold) /\ probe.value

(***************************************************************************)
(* One facility's events processed with no other facility present: the     *)
(* inputs of each event (its payload, the row of pois read for it, where   *)
(* the database or the broker fails) are taken from the history, and       *)
(* everything else is recomputed from the facility's own earlier events.   *)
(***************************************************************************)
SoloStart ==
    [smoother |-> None, model |-> NoModel, state |-> NoQueueState,
     outbox |-> <<>>, agrees |-> TRUE]

SoloStep(s, poi_id, e) ==
    LET num_servers  == NumServersOf(e.row, e.facility_type)
        service_rate == ServiceRateOf(e.row, e.facility_type)
        smoothed     == SmootherUpdate(s.smoother, ArrivalRate(e.queue_length))
        model        == ModelFor(s.model, num_servers)
        out          == CalculateWaitTime(model.num_servers, ToRat(smoothed),
                                          service_rate, e.queue_length)
        significant  == IsSignificantChange(PreviousWait(s.state),
                                            out.value.wait_minutes, DefaultThreshold)
        decision     == ShouldPublish(significant, s.state)
        estimated    == [s EXCEPT !.smoother = smoothed, !.model = model]
        sent         == [poi |-> poi_id, wait_minutes |-> out.value.wait_minutes,
                         confidence_lower |-> out.value.confidence_lower,
                         confidence_upper |-> out.value.confidence_upper,
                         status |-> out.value.status, queue_length |-> e.queue_length]
    IN  IF e.outcome = "db_error: get_poi_by_id" THEN s
        ELSE IF out.raised # ""
        THEN [estimated EXCEPT !.agrees = @ /\ e.outcome = out.raised]
        ELSE IF e.outcome = "db_error: get_queue_state_raw"
        THEN [estimated EXCEPT !.agrees = @ /\ e.result = out.value]
        ELSE IF e.outcome = "db_error: update_queue_state"
        THEN [estimated EXCEPT !.agrees = @ /\ e.result = out.value
                                            /\ e.significant_change = significant]
        ELSE [estimated EXCEPT
                 !.state = QueueStateRow(smoothed, out.value, e.queue_length),
                 !.outbox = IF e.published = "sent" THEN Append(@, sent) ELSE @,
                 !.agrees = /\ @
                            /\ e.outcome = "ok"
                            /\ e.result = out.value
                            /\ e.smoothed_rate = smoothed
                            /\ e.significant_change = significant
                            /\ (e.published # "none") = decision]

RECURSIVE Solo(_, _)
Solo(poi_id, i) ==
    IF i = 0 THEN SoloStart ELSE SoloStep(Solo(poi_id, i - 1), poi_id, log[poi_id][i])

\* every facility's results, decisions and state are those of its own events
AsIfAlone ==
    \A p \in PoiIds :
        LET s == Solo(p, Len(log[p]))
        IN  /\ s.agrees
            /\ outbox[p] = s.outbox
            /\ (pc = "idle" \/ cur.poi_id # p)
               => (/\ smoothers[p] = s.smoother
                   /\ queue_models[p] = s.model
                   /\ queue_states[p] = s.state)

\* the facility whose event a step belongs to, if any
InHand == IF pc # "idle" THEN cur.poi_id ELSE cur'.poi_id

\* a step changes no smoother, model or stored state but those of the
\* facility in hand
OthersUntouched ==
    \A b \in PoiIds :
        b # InHand => (/\ smoothers'[b] = smoothers[b]
                       /\ queue_models'[b] = queue_models[b]
                       /\ queue_states'[b] = queue_states[b]
                       /\ outbox'[b] = outbox[b])

\* C7: processing an observation of facility A leaves the smoother, the
\* cached model and the stored state of every other facility unchanged, and
\* in every interleaving each facility's results and publish decisions are
\* those its own events alone lead to.
C7_FacilitiesIndependent == [][OthersUntouched]_vars /\ []AsIfAlone

\* C7 (witness): events of the restroom and of the bar have been processed
\* and a further event of the restroom is in hand, the bar's state in place
C7_EventsOfTwoFacilities ==
    /\ log[Restroom] # <<>>
    /\ log[Bar] # <<>>
    /\ pc = "update"
    /\ cur.poi_id = Restroom
    /\ queue_states[Bar].present
    /\ queue_states[Restroom].present
    /\ smoothers[Bar] # None

\* the order of the handler's positions
HandlerOrder ==
    {<<"idle", "get_poi">>, <<"get_poi", "get_state">>, <<"get_state", "update">>,
     <<"update", "publish">>,
     <<"get_poi", "idle">>, <<"get_state", "idle">>, <<"update", "idle">>,
     <<"publish", "idle">>}

\* a step starts the next event only when no event is in hand, and a step
\* of the event in hand is the next step of that same event
OneEventAtATime ==
    /\ stats'.messages_received # stats.messages_received
       => (pc = "idle" /\ cur = NoCur)
    /\ pc' # pc => <<pc, pc'>> \in HandlerOrder
    /\ (pc # "idle" /\ pc' # "idle")
       => (/\ cur'.poi_id = cur.poi_id
           /\ cur'.queue_length = cur.queue_length
           /\ log' = log)
    /\ (smoothers' # smoothers \/ queue_states' # queue_states \/ outbox' # outbox)
       => pc # "idle"

\* C8: the steps of one event (smoother update, estimate, read of the
\* previous state, write of the new state, publish) run to completion
\* before any step of the next event starts.
C8_EventsSerialized == [][OneEventAtATime]_vars

\* C8 (witness): a second event of a facility is in hand, after the first
\* one has been stored and published
C8_SecondEventInHand ==
    /\ pc = "get_state"
    /\ Len(log[cur.poi_id]) = 1
    /\ log[cur.poi_id][1].published = "sent"
    /\ stats.messages_received = 2

ServiceRateError == "ValueError: Service rate must be positive"

EstimateStep == pc = "get_poi" /\ pc' # "get_poi" /\ faults' = faults

\* the event in hand ends with the invalid-parameter error: counted,
\* nothing stored or published, the loop ready for the next message
RejectedStep ==
    /\ pc' = "idle"
    /\ stats'.errors = stats.errors + 1
    /\ stats'.messages_published = stats.messages_published
    /\ queue_states' = queue_states
    /\ outbox' = outbox
    /\ conn' = conn
    /\ running' = running
    /\ log'[cur.poi_id][Len(log'[cur.poi_id])].outcome = ServiceRateError
    /\ log'[cur.poi_id][Len(log'[cur.poi_id])].published = "none"

C10_EstimateUsesConfiguredServers ==
    \A p \in PoiIds : \A i \in 1..Len(log[p]) :
        (faults = 0 /\ log[p][i].outcome = "ok" /\ log[p][i].num_servers > 0)
        => log[p][i].result =
               CalculateWaitTime(log[p][i].num_servers, ToRat(log[p][i].smoothed_rate),
                                 log[p][i].service_rate, log[p][i].queue_length).value

\* the row an observation's result is stored as
RowOfResult(smoothed_rate, result, queue_length) ==
    [present |-> TRUE,
     arrival_rate |-> smoothed_rate,
     wait_minutes |-> result.wait_minutes,
     confidence_lower |-> result.confidence_lower,
     confidence_upper |-> result.confidence_upper,
     sample_count |-> queue_length,
     status |-> result.status]

\* the row of the latest of the first i events of a POI that was processed
\* successfully, published or not
RECURSIVE LastStored(_, _)
LastStored(poi_id, i) ==
    IF i = 0 THEN NoQueueState
    ELSE IF log[poi_id][i].outcome = "ok"
    THEN RowOfResult(log[poi_id][i].smoothed_rate, log[poi_id][i].result,
                     log[poi_id][i].queue_length)
    ELSE LastStored(poi_id, i - 1)

\* C11: the one row of queue_states a facility has is the result (wait,
\* confidence bounds, status, smoothed rate) of its latest successfully
\* processed observation, whether or not that result was published; a later
\* observation replaces the row.
C11_StoredStateIsLatestResult ==
    \A p \in PoiIds :
        IF pc = "publish" /\ cur.poi_id = p
        THEN queue_states[p] = RowOfResult(cur.smoothed_rate, cur.result, cur.queue_length)
        ELSE queue_states[p] = LastStored(p, Len(log[p]))

\* C11 (witness): the row of a facility is the result of its second
\* observation, which replaced the first and was not published
C11_UnpublishedResultStored ==
    \E p \in PoiIds :
        /\ pc = "idle"
        /\ Len(log[p]) = 2
        /\ log[p][1].outcome = "ok" /\ log[p][1].published = "sent"
        /\ log[p][2].outcome = "ok" /\ log[p][2].published = "none"
        /\ log[p][2].result # log[p][1].result
        /\ queue_states[p].wait_minutes = log[p][2].result.wait_minutes
        /\ queue_states[p].wait_minutes # outbox[p][Len(outbox[p])].wait_minutes

(***************************************************************************)
(* QueueModel.calculate_wait_time applied on its own.  A run makes two     *)
(* calls with the same arrival rate and service rate, each with its own    *)
(* server count and sample count, and then evaluates _calculate_mmk with   *)
(* the arguments of the first call.  The pipeline is left as it starts.    *)
(***************************************************************************)
\* the largest server count of the grid
MaxServers == 4

EstimateName == "calculate_wait_time"

\* server counts: 1..MaxServers and, since num_servers is any int of the
\* row, 0 and a negative one
EstimateServers == {-2, 0} \cup (1..MaxServers)

EstimateArrivalRates == {RInt(-1), RZero, Rat(1, 2), Rat(4, 5), ROne, RInt(2)}

EstimateServiceRates == {RInt(-1), RZero, Rat(1, 2), ROne, RInt(3)}

EstimateSampleCounts == {-1, 0, 1, 3, 4, 9}

EstimateCase(num_servers, arrival_rate, service_rate) ==
    [num_servers |-> num_servers, arrival_rate |-> arrival_rate,
     service_rate |-> service_rate]

\* cases at and next to the overload boundary rho = 0.95 and the steady
\* state of the bar, which keep their server count in both calls
EstimateFixedCases ==
    {EstimateCase(1, Rat(94999, 100000), ROne),
     EstimateCase(1, Rat(19, 20), ROne),
     EstimateCase(1, RInt(19), RInt(20)),
     EstimateCase(1, Rat(24, 25), ROne),
     EstimateCase(2, Rat(19, 10), ROne),
     EstimateCase(8, RInt(4), Rat(1, 2)),
     EstimateCase(8, RInt(4), RInt(3))}

EstimateGrid ==
    {EstimateCase(k, l, m) :
        k \in EstimateServers, l \in EstimateArrivalRates, m \in EstimateServiceRates}

NoOutcome == Raised("not called")

EstimateProbes ==
    {[fn |-> EstimateName,
      arrival_rate |-> c.arrival_rate, service_rate |-> c.service_rate,
      calls |-> <<[num_servers |-> c.num_servers, sample_count |-> n1],
                  [num_servers |-> k2, sample_count |-> n2]>>,
      outs |-> <<>>, mmk |-> NoOutcome] :
        c \in EstimateGrid, n1 \in EstimateSampleCounts,
        k2 \in EstimateServers, n2 \in EstimateSampleCounts}
    \cup
    {[fn |-> EstimateName,
      arrival_rate |-> c.arrival_rate, service_rate |-> c.service_rate,
      calls |-> <<[num_servers |-> c.num_servers, sample_count |-> n1],
                  [num_servers |-> c.num_servers, sample_count |-> n2]>>,
      outs |-> <<>>, mmk |-> NoOutcome] :
        c \in EstimateFixedCases, n1 \in EstimateSampleCounts,
        n2 \in EstimateSampleCounts}

EstimateInit ==
    /\ InitPipeline
    /\ pois[Bar] = NoPoiRow
    /\ probe \in EstimateProbes

\* QueueModel(num_servers).calculate_wait_time(...) returns or raises
CallEstimate ==
    LET i == Len(probe.outs) + 1
    IN  /\ probe.fn = EstimateName
        /\ i <= Len(probe.calls)
        /\ probe' = [probe EXCEPT !.outs =
                        Append(@, CalculateWaitTime(probe.calls[i].num_servers,
                                                    probe.arrival_rate, probe.service_rate,
                                                    probe.calls[i].sample_count))]
        /\ UNCHANGED <<smoothers, queue_models, pois, queue_states, stats, outbox,
                       running, conn, client, pc, cur, log, faults, inserts, ignored>>

\* QueueModel(num_servers)._calculate_mmk(...) with the arguments of the
\* first call, for the rates calculate_wait_time passes on to it
CallMMK ==
    /\ probe.fn = EstimateName
    /\ Len(probe.outs) = Len(probe.calls)
    /\ probe.mmk = NoOutcome
    /\ probe.arrival_rate.n > 0
    /\ probe.service_rate.n > 0
    /\ probe' = [probe EXCEPT !.mmk =
                    CalculateMMK(probe.calls[1].num_servers, probe.arrival_rate,
                                 probe.service_rate, probe.calls[1].sample_count)]
    /\ UNCHANGED <<smoothers, queue_models, pois, queue_states, stats, outbox,
                   running, conn, client, pc, cur, log, faults, inserts, ignored>>

EstimateNext == CallEstimate \/ CallMMK

SpecEstimate == EstimateInit /\ [][EstimateNext]_vars

\* the calls of the run that have finished
Called == 1..Len(probe.outs)

ZeroResult ==
    [wait_minutes |-> Fin(RZero), confidence_lower |-> ConfRat(RZero),
     confidence_upper |-> ConfRat(RZero), utilization |-> RZero, status |-> "low"]

\* C12: for every arrival rate <= 0, calculate_wait_time returns wait 0,
\* confidence interval [0, 0], utilization 0 and status low, whatever the
\* service rate and the server count.
C12_NoArrivalsZeroResult ==
    \A i \in Called :
        probe.arrival_rate.n <= 0
        => (probe.outs[i].raised = "" /\ probe.outs[i].value = ZeroResult)

\* C12 (witness): the zero result was returned for a negative arrival
\* rate, a service rate of 0 and a server count of 0
C12_ZeroResultForInvalidModel ==
    /\ probe.fn = EstimateName
    /\ probe.arrival_rate.n < 0
    /\ probe.service_rate.n = 0
    /\ probe.calls[1].num_servers = 0
    /\ Len(probe.outs) >= 1
    /\ probe.outs[1].value.status = "low"

\* C13 (as stated): for every service rate <= 0, calculate_wait_time raises
\* ValueError 'Service rate must be positive', whatever the arrival rate,
\* the sample count and the server count.
C13_NonPositiveServiceRateRaises ==
    \A i \in Called :
        probe.service_rate.n <= 0 => probe.outs[i].raised = ServiceRateError

\* C13 (amended): for every service rate <= 0 and every arrival rate > 0,
\* calculate_wait_time raises ValueError 'Service rate must be positive',
\* whatever the sample count and the server count; for an arrival rate <= 0
\* it raises nothing and returns the zero result.
C13_NonPositiveServiceRateRaisesIfArrivals ==
    \A i \in Called :
        probe.service_rate.n <= 0
        => IF probe.arrival_rate.n > 0
           THEN probe.outs[i].raised = ServiceRateError
           ELSE probe.outs[i].raised = "" /\ probe.outs[i].value.wait_minutes = Fin(RZero)

\* C13 (witness): the error was raised for a service rate of 0 and a
\* server count of 0, before the server count was looked at
C13_ServiceRateErrorRaised ==
    /\ probe.fn = EstimateName
    /\ probe.service_rate.n = 0
    /\ probe.arrival_rate.n > 0
    /\ probe.calls[1].num_servers = 0
    /\ Len(probe.outs) >= 1
    /\ probe.outs[1].raised = ServiceRateError

\* the arguments of the i-th call
ServersOf(i) == probe.calls[i].num_servers

SamplesOf(i) == probe.calls[i].sample_count

\* positive rates and at least one server: the queue the formulas are for
ProperQueue(i) ==
    probe.arrival_rate.n > 0 /\ probe.service_rate.n > 0 /\ ServersOf(i) >= 1

\* rho = lambda / (k * mu) of the i-th call
RhoOf(i) == RDiv(probe.arrival_rate, RMul(RInt(ServersOf(i)), probe.service_rate))

\* rho >= num/den, multiplied out: den * lambda >= num * k * mu
RhoAtLeast(i, num, den) ==
    RLeq(RMul(RInt(num * ServersOf(i)), probe.service_rate),
         RMul(RInt(den), probe.arrival_rate))

\* C14: for positive rates, whenever rho = lambda/(k*mu) >= 0.95 the result
\* is wait +inf, confidence_lower 15.0, confidence_upper +inf, utilization
\* rho and status overloaded, with one server and with several; nothing is
\* raised.
C14_OverloadedResult ==
    \A i \in Called :
        (ProperQueue(i) /\ RhoAtLeast(i, 19, 20))
        => (/\ probe.outs[i].raised = ""
            /\ probe.outs[i].value =
                   [wait_minutes |-> Inf, confidence_lower |-> ConfRat(RInt(15)),
                    confidence_upper |-> ConfInf, utilization |-> RhoOf(i),
                    status |-> "overloaded"])

\* C14 (witness): with two servers and rho exactly 0.95 the overloaded
\* result was returned
C14_OverloadedAtBoundary ==
    /\ probe.fn = EstimateName
    /\ Len(probe.outs) >= 1
    /\ ServersOf(1) = 2
    /\ ProperQueue(1)
    /\ RhoOf(1) = Rat(19, 20)
    /\ probe.outs[1].value.status = "overloaded"
    /\ probe.outs[1].value.wait_minutes = Inf

\* C15: for positive rates the status is a function of rho alone, the same
\* with one server and with several: low iff rho < 0.5, medium iff
\* 0.5 <= rho < 0.75, high iff 0.75 <= rho < 0.95, overloaded iff
\* rho >= 0.95; rho = 0.94999 is high and rho = 0.95 is overloaded.
C15_StatusByUtilization ==
    \A i \in Called :
        ProperQueue(i)
        => (/\ probe.outs[i].raised = ""
            /\ probe.outs[i].value.status =
                   (IF RhoAtLeast(i, 19, 20) THEN "overloaded"
                    ELSE IF RhoAtLeast(i, 3, 4) THEN "high"
                    ELSE IF RhoAtLeast(i, 1, 2) THEN "medium"
                    ELSE "low")
            /\ RhoOf(i) = Rat(94999, 100000) => probe.outs[i].value.status = "high"
            /\ RhoOf(i) = Rat(19, 20) => probe.outs[i].value.status = "overloaded")

\* C15 (witness): one server at rho = 0.8 was classified high and two
\* servers at rho = 0.4, with the same rates, low
C15_HighAndLowClassified ==
    /\ probe.fn = EstimateName
    /\ Len(probe.outs) = 2
    /\ ServersOf(1) = 1 /\ ServersOf(2) = 2
    /\ ProperQueue(1)
    /\ RhoOf(1) = Rat(4, 5)
    /\ probe.outs[1].value.status = "high"
    /\ probe.outs[2].value.status = "low"

\* wait_minutes * (mu - lambda) = 1
IsClosedForm(i) ==
    /\ probe.outs[i].raised = ""
    /\ probe.outs[i].value.wait_minutes.kind = "fin"
    /\ RMul(ToRat(probe.outs[i].value.wait_minutes),
            RSub(probe.service_rate, probe.arrival_rate)) = ROne

\* C17 (as stated): with one server and 0 < lambda < mu the returned
\* wait_minutes is 1/(mu - lambda).
C17_ClosedFormBelowServiceRate ==
    \A i \in Called :
        (ServersOf(i) = 1 /\ probe.arrival_rate.n > 0
            /\ RLess(probe.arrival_rate, probe.service_rate))
        => IsClosedForm(i)

\* C17 (amended): with one server and 0 < lambda < 0.95 * mu the returned
\* wait_minutes is 1/(mu - lambda); with 0.95 * mu <= lambda < mu it is
\* +inf.
C17_ClosedFormBelowOverload ==
    \A i \in Called :
        (ServersOf(i) = 1 /\ probe.arrival_rate.n > 0
            /\ RLess(probe.arrival_rate, probe.service_rate))
        => IF RhoAtLeast(i, 19, 20)
           THEN probe.outs[i].raised = "" /\ probe.outs[i].value.wait_minutes = Inf
           ELSE IsClosedForm(i)

\* C17 (witness): with lambda = 0.94999 and mu = 1 the wait returned is
\* 1/0.05001
C17_ClosedFormNextToOverload ==
    /\ probe.fn = EstimateName
    /\ Len(probe.outs) >= 1
    /\ ServersOf(1) = 1
    /\ probe.arrival_rate = Rat(94999, 100000)
    /\ probe.service_rate = ROne
    /\ probe.outs[1].value.wait_minutes = Fin(Rat(100000, 5001))

\* (m / x)^2 compared with rad, for x # 0
SquareRatio(m, x) == LET q == RDiv(m, x) IN RMul(q, q)

\* c >= r for a confidence bound c = base + marg / sqrt(rad) and a rational r
ConfAtLeast(c, r) ==
    LET x == RSub(r, c.base)
        m == c.marg
    IN  IF c.kind = "inf" THEN TRUE
        ELSE IF m.n >= 0
             THEN x.n <= 0 \/ (m.n > 0 /\ RLeq(RInt(c.rad), SquareRatio(m, x)))
             ELSE x.n < 0 /\ RLeq(SquareRatio(m, x), RInt(c.rad))

\* c <= r
ConfAtMost(c, r) ==
    LET x == RSub(r, c.base)
        m == c.marg
    IN  IF c.kind = "inf" THEN FALSE
        ELSE IF m.n <= 0
             THEN x.n >= 0 \/ (m.n < 0 /\ RLeq(RInt(c.rad), SquareRatio(m, x)))
             ELSE x.n > 0 /\ RLeq(SquareRatio(m, x), RInt(c.rad))

\* C16: every returned result has 0 <= confidence_lower <= wait_minutes <=
\* confidence_upper, except the overloaded result, whose confidence_lower is
\* 15.0 and whose confidence_upper is +inf; wait_minutes and utilization are
\* never negative.
C16_ConfidenceIntervalBracketsWait ==
    \A i \in Called :
        probe.outs[i].raised = ""
        => LET v == probe.outs[i].value
           IN  /\ v.wait_minutes.kind \in {"fin", "inf"}
               /\ v.wait_minutes.n >= 0
               /\ v.utilization.n >= 0
               /\ IF v.status = "overloaded"
                  THEN /\ v.confidence_lower = ConfRat(RInt(15))
                       /\ v.confidence_upper = ConfInf
                  ELSE /\ v.wait_minutes.kind = "fin"
                       /\ ConfAtLeast(v.confidence_lower, RZero)
                       /\ ConfAtMost(v.confidence_lower, ToRat(v.wait_minutes))
                       /\ ConfAtLeast(v.confidence_upper, ToRat(v.wait_minutes))

\* C16 (witness): several servers with a positive finite wait: with one
\* sample the lower bound was cut off at 0, with nine it is positive and
\* below the wait
C16_LowerBoundCutAndUncut ==
    /\ probe.fn = EstimateName
    /\ Len(probe.outs) = 2
    /\ ServersOf(1) = 2 /\ ServersOf(2) = 2
    /\ SamplesOf(1) = 1 /\ SamplesOf(2) = 9
    /\ probe.outs[1].raised = "" /\ probe.outs[2].raised = ""
    /\ probe.outs[1].value.wait_minutes.kind = "fin"
    /\ probe.outs[1].value.wait_minutes.n > 0
    /\ probe.outs[1].value.confidence_lower = ConfRat(RZero)
    /\ probe.outs[2].value.confidence_lower.marg.n < 0
    /\ ~ConfAtMost(probe.outs[2].value.confidence_lower, RZero)

\* |x - y| <= y / 100 for floats that are finite or +inf
WithinOnePercent(x, y) ==
    IF x.kind = "fin" /\ y.kind = "fin"
    THEN LET diff == RSub(ToRat(x), ToRat(y))
             gap  == IF diff.n < 0 THEN RNeg(diff) ELSE diff
         IN  RLeq(RMul(RInt(100), gap), ToRat(y))
    ELSE x = y

\* C18: with one server the general formula agrees with the single-server
\* formula: _calculate_mmk with num_servers = 1 and _calculate_mm1 give the
\* same status and wait times within 1% of each other.
C18_GeneralFormulaAgreesForOneServer ==
    (/\ probe.fn = EstimateName
     /\ probe.mmk # NoOutcome
     /\ ServersOf(1) = 1)
    => LET mm1 == CalculateMM1(probe.arrival_rate, probe.service_rate, SamplesOf(1))
       IN  /\ probe.outs[1] = mm1
           /\ probe.mmk.raised = "" /\ mm1.raised = ""
           /\ probe.mmk.value.status = mm1.value.status
           /\ WithinOnePercent(probe.mmk.value.wait_minutes, mm1.value.wait_minutes)

\* C18 (witness): both formulas were applied to one server at rho = 0.8 and
\* returned the finite wait 1/(mu - lambda) = 5
C18_BothFormulasApplied ==
    /\ probe.fn = EstimateName
    /\ probe.mmk # NoOutcome
    /\ ServersOf(1) = 1
    /\ probe.arrival_rate = Rat(4, 5) /\ probe.service_rate = ROne
    /\ probe.mmk.value.wait_minutes = Fin(RInt(5))
    /\ probe.outs[1].value.wait_minutes = Fin(RInt(5))
    /\ probe.mmk.value.status = "high"

\* wait_minutes of the i-th call
WaitOf(i) == probe.outs[i].value.wait_minutes

\* a < b for rationals, by integer parts and the reciprocals of the
\* fractional parts, so that no product of two denominators is formed
RECURSIVE RLessByParts(_, _)
RLessByParts(a, b) ==
    LET qa == a.n \div a.d
        qb == b.n \div b.d
        ra == a.n % a.d
        rb == b.n % b.d
    IN  IF qa # qb THEN qa < qb
        ELSE IF rb = 0 THEN FALSE
        ELSE IF ra = 0 THEN TRUE
        ELSE RLessByParts([n |-> b.d, d |-> rb], [n |-> a.d, d |-> ra])

\* x < y for waits that are finite or +inf
WaitLess(x, y) ==
    IF x.kind = "inf" THEN FALSE
    ELSE IF y.kind = "inf" THEN TRUE
    ELSE RLessByParts(ToRat(x), ToRat(y))

\* C19 (as stated): for fixed arrival and service rates more servers give a
\* strictly smaller wait: for all k1 < k2, wait(k2) < wait(k1).
C19_MoreServersStrictlyShorterWait ==
    \A i \in Called : \A j \in Called :
        (ProperQueue(i) /\ ProperQueue(j) /\ ServersOf(i) < ServersOf(j))
        => WaitLess(WaitOf(j), WaitOf(i))

\* C19 (amended): for fixed positive rates and 1 <= k1 < k2, wait(k2) is
\* never above wait(k1), and strictly below it when k2 servers are not
\* overloaded (lambda / (k2 * mu) < 0.95); with both overloaded both waits
\* are +inf.
C19_MoreServersShorterWaitUnlessOverloaded ==
    \A i \in Called : \A j \in Called :
        (ProperQueue(i) /\ ProperQueue(j) /\ ServersOf(i) < ServersOf(j))
        => /\ probe.outs[i].raised = "" /\ probe.outs[j].raised = ""
           /\ ~WaitLess(WaitOf(i), WaitOf(j))
           /\ IF RhoAtLeast(j, 19, 20)
              THEN WaitOf(i) = Inf /\ WaitOf(j) = Inf
              ELSE WaitLess(WaitOf(j), WaitOf(i))

\* C19 (witness): with lambda = 0.8 and mu = 0.5 two servers gave a finite
\* wait and four servers a strictly smaller one
C19_FourServersFasterThanTwo ==
    /\ probe.fn = EstimateName
    /\ Len(probe.outs) = 2
    /\ probe.arrival_rate = Rat(4, 5) /\ probe.service_rate = Rat(1, 2)
    /\ ServersOf(1) = 2 /\ ServersOf(2) = 4
    /\ WaitOf(1).kind = "fin" /\ WaitOf(2).kind = "fin"
    /\ WaitLess(WaitOf(2), WaitOf(1))
    /\ WaitLess(Fin(RInt(2)), WaitOf(2))

\* confidence_upper - confidence_lower of a result, as base + marg / sqrt(rad)
\* or +inf; both bounds of a result have the same rad when both have a margin
Width(v) ==
    IF v.confidence_upper.kind = "inf" THEN ConfInf
    ELSE [kind |-> "fin",
          base |-> RSub(v.confidence_upper.base, v.confidence_lower.base),
          marg |-> RSub(v.confidence_upper.marg, v.confidence_lower.marg),
          rad  |-> v.confidence_upper.rad]

\* sqrt(A) - sqrt(B) < x for rationals A, B >= 0
RootDifferenceBelow(A, B, x) ==
    IF x.n > 0
    THEN LET c == RSub(RSub(A, RMul(x, x)), B)
         IN  c.n < 0 \/ RLess(RMul(c, c), RMul(RInt(4), RMul(RMul(x, x), B)))
    ELSE LET c == RSub(RSub(B, A), RMul(x, x))
         IN  c.n > 0 /\ RLess(RMul(RInt(4), RMul(RMul(x, x), A)), RMul(c, c))

\* a < b for two widths with margins >= 0; both are divided by one of the
\* margins first, which keeps the numbers small
WidthLess(a, b) ==
    IF a.kind = "inf" THEN FALSE
    ELSE IF b.kind = "inf" THEN TRUE
    ELSE IF a.marg.n = 0 /\ b.marg.n = 0 THEN RLess(a.base, b.base)
    ELSE LET s  == IF b.marg.n > 0 THEN b.marg ELSE a.marg
             ma == RDiv(a.marg, s)
             mb == RDiv(b.marg, s)
         IN  RootDifferenceBelow(RDiv(RMul(ma, ma), RInt(a.rad)),
                                 RDiv(RMul(mb, mb), RInt(b.rad)),
                                 RDiv(RSub(b.base, a.base), s))

\* two calls that differ in nothing but a larger sample_count in the second
MoreSamples(i, j) ==
    /\ probe.outs[i].raised = "" /\ probe.outs[j].raised = ""
    /\ ServersOf(i) = ServersOf(j)
    /\ SamplesOf(i) < SamplesOf(j)

\* C20 (as stated): for fixed arrival and service rates the width
\* confidence_upper - confidence_lower is strictly decreasing in
\* sample_count: n1 < n2 implies width(n2) < width(n1).
C20_WidthStrictlyDecreasing ==
    \A i \in Called : \A j \in Called :
        (MoreSamples(i, j) /\ ProperQueue(i) /\ SamplesOf(i) >= 0)
        => WidthLess(Width(probe.outs[j].value), Width(probe.outs[i].value))

\* C20 (amended): for a result with a finite positive wait (positive
\* rates, rho < 0.95) and 1 <= n1 < n2, width(n2) < width(n1); every
\* sample_count below 1 gives the width of sample_count = 1; the width of
\* the overloaded result is infinite and that of the zero result is 0 for
\* every sample_count.
C20_WidthDecreasingFromOneSample ==
    \A i \in Called : \A j \in Called :
        MoreSamples(i, j)
        => LET wi == Width(probe.outs[i].value)
               wj == Width(probe.outs[j].value)
           IN  IF probe.arrival_rate.n <= 0 THEN wi = ConfRat(RZero) /\ wj = wi
               ELSE IF RhoAtLeast(i, 19, 20) THEN wi = ConfInf /\ wj = wi
               ELSE IF SamplesOf(j) <= 1 THEN wj = wi /\ wi.marg.n > 0
               ELSE WidthLess(wj, wi)

\* C20 (witness): a finite positive wait estimated from 3 and then from 4
\* samples: the lower bound is 0 with 3 and positive with 4, and the width
\* with 4 is the smaller one
C20_NarrowerWithFourSamples ==
    /\ probe.fn = EstimateName
    /\ Len(probe.outs) = 2
    /\ MoreSamples(1, 2)
    /\ ServersOf(1) = 2
    /\ SamplesOf(1) = 3 /\ SamplesOf(2) = 4
    /\ WaitOf(1).kind = "fin" /\ WaitOf(1).n > 0
    /\ probe.outs[1].value.confidence_lower = ConfRat(RZero)
    /\ probe.outs[2].value.confidence_lower.marg.n < 0
    /\ WidthLess(Width(probe.outs[2].value), Width(probe.outs[1].value))
    /\ ~WidthLess(Width(probe.outs[1].value), Width(probe.outs[2].value))

(***************************************************************************)
(* ArrivalRateSmoother applied on its own: one smoother, built with one of *)
(* a few values of alpha, receives a bounded run of update and get_rate    *)
(* calls; the pipeline is left as it starts.                               *)
(***************************************************************************)
\* calls made on the smoother in one run
MaxCalls == 4

SmootherName == "ArrivalRateSmoother"

\* alpha = 0.3 is what the consumer uses; 1 is the end of the range the
\* constructor documents
SmootherAlphas == {Alpha, Rat(1, 2), ROne}

SmootherRates == {RZero, Rat(9, 5), RInt(2), RInt(-1)}

\* one call on the smoother: current_rate before and after, and the value
\* returned
SmootherCall(op, new_rate, before, returned, after) ==
    [op |-> op, new_rate |-> new_rate, before |-> before,
     returned |-> returned, after |-> after]

SmootherInit ==
    /\ InitPipeline
    /\ pois[Bar] = NoPoiRow
    /\ probe \in {[fn |-> SmootherName, alpha |-> a, current_rate |-> None,
                   calls |-> <<>>] : a \in SmootherAlphas}

\* smoother.update(new_rate)
CallUpdate(new_rate) ==
    LET stored == SmootherUpdateWith(probe.alpha, probe.current_rate, new_rate)
    IN  /\ probe.fn = SmootherName
        /\ Len(probe.calls) < MaxCalls
        /\ probe' = [probe EXCEPT
                        !.current_rate = stored,
                        !.calls = Append(@, SmootherCall("update", new_rate,
                                                         probe.current_rate, stored, stored))]
        /\ UNCHANGED <<smoothers, queue_models, pois, queue_states, stats, outbox,
                       running, conn, client, pc, cur, log, faults, inserts, ignored>>

\* smoother.get_rate()
CallGetRate ==
    /\ probe.fn = SmootherName
    /\ Len(probe.calls) < MaxCalls
    /\ probe' = [probe EXCEPT
                    !.calls = Append(@, SmootherCall("get_rate", RZero, probe.current_rate,
                                                     GetRate(probe.current_rate),
                                                     probe.current_rate))]
    /\ UNCHANGED <<smoothers, queue_models, pois, queue_states, stats, outbox,
                   running, conn, client, pc, cur, log, faults, inserts, ignored>>

SmootherNext ==
    \/ \E r \in SmootherRates : CallUpdate(r)
    \/ CallGetRate

SpecSmoother == SmootherInit /\ [][SmootherNext]_vars

\* the calls made so far
SmootherCalls == 1..Len(probe.calls)

\* C21: the first update(x) of a smoother stores and returns x unchanged;
\* every later update(x) stores and returns alpha*x + (1 - alpha)*previous;
\* get_rate returns the stored value (None before the first update) and
\* never changes it.
C21_SmootherContract ==
    probe.fn = SmootherName
    => /\ \A i \in SmootherCalls :
            LET c == probe.calls[i]
            IN  /\ c.before = (IF i = 1 THEN None ELSE probe.calls[i - 1].after)
                /\ c.op = "update"
                   => /\ c.returned = c.after
                      /\ IF c.before = None
                         THEN c.after = Fin(c.new_rate)
                         ELSE /\ c.after.kind = "fin"
                              /\ ToRat(c.after) =
                                     RAdd(RMul(probe.alpha, c.new_rate),
                                          RSub(ToRat(c.before),
                                               RMul(probe.alpha, ToRat(c.before))))
                /\ c.op = "get_rate"
                   => /\ c.returned = c.before
                      /\ c.after = c.before
                /\ (c.before = None) <=> (\A j \in 1..(i - 1) : probe.calls[j].op = "get_rate")
       /\ probe.current_rate =
              (IF probe.calls = <<>> THEN None ELSE probe.calls[Len(probe.calls)].after)

\* C21 (witness): get_rate returned None, update(2) returned 2, update(1.8)
\* with alpha = 0.3 returned 0.3 * 1.8 + 0.7 * 2 = 1.94, and get_rate
\* returned 1.94
C21_SecondUpdateSmoothed ==
    /\ probe.fn = SmootherName
    /\ probe.alpha = Rat(3, 10)
    /\ Len(probe.calls) = 4
    /\ probe.calls[1].op = "get_rate" /\ probe.calls[1].returned = None
    /\ probe.calls[2].op = "update" /\ probe.calls[2].returned = Fin(RInt(2))
    /\ probe.calls[3].op = "update" /\ probe.calls[3].new_rate = Rat(9, 5)
    /\ probe.calls[3].returned = Fin(Rat(97, 50))
    /\ probe.calls[4].op = "get_rate" /\ probe.calls[4].returned = Fin(Rat(97, 50))

\* an update with raw_rate 0 on a smoother built with alpha < 1
ZeroUpdate(i) ==
    /\ probe.calls[i].op = "update"
    /\ probe.calls[i].new_rate = RZero
    /\ RLess(RZero, probe.alpha) /\ RLess(probe.alpha, ROne)

\* a positive rate goes strictly down and stays positive
DecaysStrictly(c) ==
    (c.before.kind = "fin" /\ c.before.n > 0)
    => /\ c.after.kind = "fin"
       /\ c.after.n > 0
       /\ RLess(ToRat(c.after), ToRat(c.before))

\* C22 (as stated): for alpha in (0, 1) no single update with raw_rate 0
\* brings the rate to exactly 0 unless the rate was already 0; consecutive
\* zero observations decrease a positive rate strictly toward 0 without
\* reaching it in one step.
C22_ZeroReachedOnlyFromZero ==
    probe.fn = SmootherName
    => \A i \in SmootherCalls :
           ZeroUpdate(i)
           => /\ FIsZero(probe.calls[i].after) => FIsZero(probe.calls[i].before)
              /\ DecaysStrictly(probe.calls[i])

\* C22 (amended): for alpha in (0, 1) an update with raw_rate 0 brings the
\* rate to exactly 0 only if the rate was already 0 or the smoother had no
\* rate yet (the first update stores 0 unchanged); consecutive zero
\* observations decrease a positive rate strictly toward 0 without
\* reaching it.
C22_ZeroReachedOnlyFromZeroOrNone ==
    probe.fn = SmootherName
    => \A i \in SmootherCalls :
           ZeroUpdate(i)
           => /\ IF probe.calls[i].before = None
                 THEN probe.calls[i].after = Fin(RZero)
                 ELSE FIsZero(probe.calls[i].after) <=> FIsZero(probe.calls[i].before)
              /\ DecaysStrictly(probe.calls[i])

\* C22 (witness): with alpha = 0.3 the rate 2 went to 1.4, 0.98 and 0.686
\* under three zero observations in a row
C22_ThreeZeroObservations ==
    /\ probe.fn = SmootherName
    /\ probe.alpha = Rat(3, 10)
    /\ Len(probe.calls) = 4
    /\ probe.calls[1].op = "update" /\ probe.calls[1].after = Fin(RInt(2))
    /\ \A i \in 2..4 : ZeroUpdate(i)
    /\ probe.calls[2].after = Fin(Rat(7, 5))
    /\ probe.calls[3].after = Fin(Rat(49, 50))
    /\ probe.calls[4].after = Fin(Rat(343, 500))

\* the errors of class ValueError the estimate raises
IsValueError(raised) ==
    raised \in {ServiceRateError,
                "ValueError: factorial() not defined for negative values"}

\* C23: an estimate requested from a model whose server count is k <= 0,
\* with positive rates, is rejected with the same invalid-parameter error
\* as a non-positive service rate (a ValueError); it never returns a result
\* and never fails with another kind of error.
C23_NonPositiveServersRejectedAsInvalid ==
    \A i \in Called :
        (probe.arrival_rate.n > 0 /\ probe.service_rate.n > 0 /\ ServersOf(i) <= 0)
        => IsValueError(probe.outs[i].raised)

(***************************************************************************)
(* get_db (src/db/database.py) applied on its own: a bounded number of     *)
(* "async with get_db() as db" blocks, one after the other.  The body      *)
(* returns or raises; commit and rollback return or raise.  An exception   *)
(* is of class Exception (ValueError, a database error, ...) or is         *)
(* asyncio.CancelledError, a BaseException that "except Exception" does    *)
(* not catch.  ops lists the calls get_db makes on the session.            *)
(***************************************************************************)
\* uses of get_db in one run
MaxSessions == 2

GetDbName == "get_db"

ExceptionClasses == {"Exception", "CancelledError"}

NoException == [at |-> "", class |-> ""]

ExceptionAt(at, class) == [at |-> at, class |-> class]

\* an except clause that catches every exception, CancelledError too (a
\* variant)
CaughtAlways(class) == TRUE

\* "except Exception as e"
Caught(class) == class = "Exception"

SessionInit ==
    /\ InitPipeline
    /\ pois[Bar] = NoPoiRow
    /\ probe = [fn |-> GetDbName, done |-> <<>>, pos |-> "idle", body |-> "",
                ops |-> <<>>, pending |-> NoException]

\* "async with async_session_factory() as session: try: yield session"
EnterSession ==
    /\ probe.fn = GetDbName
    /\ probe.pos = "idle"
    /\ Len(probe.done) < MaxSessions
    /\ probe' = [probe EXCEPT !.pos = "body", !.body = "", !.ops = <<>>,
                              !.pending = NoException]
    /\ UNCHANGED <<smoothers, queue_models, pois, queue_states, stats, outbox,
                   running, conn, client, pc, cur, log, faults, inserts, ignored>>

\* an exception raised inside the try block: the except clause calls
\* rollback if it catches the class, otherwise the finally clause calls
\* close
RaiseInTry(at, class) ==
    probe' = [probe EXCEPT
                 !.body = IF at = "body" THEN class ELSE @,
                 !.pending = ExceptionAt(at, class),
                 !.ops = Append(@, IF Caught(class) THEN "rollback" ELSE "close"),
                 !.pos = IF Caught(class) THEN "rollback" ELSE "close"]

\* the body finishes: "await session.commit()"
BodyReturns ==
    /\ probe.fn = GetDbName
    /\ probe.pos = "body"
    /\ probe' = [probe EXCEPT !.body = "returned", !.ops = Append(@, "commit"),
                              !.pos = "commit"]
    /\ UNCHANGED <<smoothers, queue_models, pois, queue_states, stats, outbox,
                   running, conn, client, pc, cur, log, faults, inserts, ignored>>

\* the body raises
BodyRaises(class) ==
    /\ probe.fn = GetDbName
    /\ probe.pos = "body"
    /\ RaiseInTry("body", class)
    /\ UNCHANGED <<smoothers, queue_models, pois, queue_states, stats, outbox,
                   running, conn, client, pc, cur, log, faults, inserts, ignored>>

\* commit returns: the finally clause calls close
CommitReturns ==
    /\ probe.fn = GetDbName
    /\ probe.pos = "commit"
    /\ probe' = [probe EXCEPT !.ops = Append(@, "close"), !.pos = "close"]
    /\ UNCHANGED <<smoothers, queue_models, pois, queue_states, stats, outbox,
                   running, conn, client, pc, cur, log, faults, inserts, ignored>>

\* commit raises
CommitRaises(class) ==
    /\ probe.fn = GetDbName
    /\ probe.pos = "commit"
    /\ RaiseInTry("commit", class)
    /\ UNCHANGED <<smoothers, queue_models, pois, queue_states, stats, outbox,
                   running, conn, client, pc, cur, log, faults, inserts, ignored>>

\* rollback returns: the error is logged, "raise" re-raises the exception
\* in hand and the finally clause calls close
RollbackReturns ==
    /\ probe.fn = GetDbName
    /\ probe.pos = "rollback"
    /\ probe' = [probe EXCEPT !.ops = Append(@, "close"), !.pos = "close"]
    /\ UNCHANGED <<smoothers, queue_models, pois, queue_states, stats, outbox,
                   running, conn, client, pc, cur, log, faults, inserts, ignored>>

\* rollback raises: its exception takes the place of the one in hand and
\* the finally clause calls close
RollbackRaises(class) ==
    /\ probe.fn = GetDbName
    /\ probe.pos = "rollback"
    /\ probe' = [probe EXCEPT !.pending = ExceptionAt("rollback", class),
                              !.ops = Append(@, "close"), !.pos = "close"]
    /\ UNCHANGED <<smoothers, queue_models, pois, queue_states, stats, outbox,
                   running, conn, client, pc, cur, log, faults, inserts, ignored>>

\* close returns: the block is left, with the exception in hand if any
CloseReturns ==
    /\ probe.fn = GetDbName
    /\ probe.pos = "close"
    /\ probe' = [probe EXCEPT
                    !.done = Append(@, [body |-> probe.body, ops |-> probe.ops,
                                        raised |-> probe.pending]),
                    !.pos = "idle", !.body = "", !.ops = <<>>,
                    !.pending = NoException]
    /\ UNCHANGED <<smoothers, queue_models, pois, queue_states, stats, outbox,
                   running, conn, client, pc, cur, log, faults, inserts, ignored>>

SessionNext ==
    \/ EnterSession
    \/ BodyReturns
    \/ \E class \in ExceptionClasses : BodyRaises(class)
    \/ CommitReturns
    \/ \E class \in ExceptionClasses : CommitRaises(class)
    \/ RollbackReturns
    \/ \E class \in ExceptionClasses : RollbackRaises(class)
    \/ CloseReturns

SpecSession == SessionInit /\ [][SessionNext]_vars

\* the number of calls of op in a list of calls
Calls(ops, op) == Cardinality({i \in 1..Len(ops) : ops[i] = op})

\* the uses of get_db that are over
Sessions == IF probe.fn = GetDbName THEN 1..Len(probe.done) ELSE {}

\* C24 (as stated): a session obtained from get_db is committed when the
\* body finishes without an exception, is rolled back when the body raises
\* (the exception is re-raised to the caller), and is closed exactly once
\* on every path; commit is never called after the body has raised.
C24_CommitOrRollbackThenClose ==
    \A s \in Sessions :
        LET d == probe.done[s]
        IN  /\ d.body = "returned" => Calls(d.ops, "commit") = 1
            /\ d.body # "returned"
               => /\ Calls(d.ops, "rollback") = 1
                  /\ d.raised = ExceptionAt("body", d.body)
                  /\ Calls(d.ops, "commit") = 0
            /\ Calls(d.ops, "close") = 1

\* C24 (amended): commit is called when the body finishes without an
\* exception and never after the body has raised.  rollback is called
\* when the body or commit raises an exception of class Exception, and
\* that exception is re-raised unless rollback raises itself, whose
\* exception then reaches the caller.  A BaseException that is not an
\* Exception (task cancellation) is not rolled back: it propagates after
\* close alone.  close is called exactly once on every path, as the last
\* call.
C24_RollbackForExceptionsOnly ==
    \A s \in Sessions :
        LET d == probe.done[s]
            rolled == Calls(d.ops, "rollback") = 1
        IN  /\ Calls(d.ops, "close") = 1
            /\ d.ops[Len(d.ops)] = "close"
            /\ Calls(d.ops, "rollback") <= 1
            /\ IF d.body = "returned"
               THEN /\ d.ops[1] = "commit" /\ Calls(d.ops, "commit") = 1
                    /\ d.raised.at \in {"", "commit", "rollback"}
                    /\ rolled <=> (d.raised # NoException
                                     /\ (d.raised.at = "rollback" \/ d.raised.class = "Exception"))
                    /\ d.ops = (IF rolled THEN <<"commit", "rollback", "close">>
                                 ELSE <<"commit", "close">>)
               ELSE /\ Calls(d.ops, "commit") = 0
                    /\ rolled <=> d.body = "Exception"
                    /\ d.body = "CancelledError"
                       => d.ops = <<"close">> /\ d.raised = ExceptionAt("body", d.body)
                    /\ d.body = "Exception"
                       => /\ d.ops = <<"rollback", "close">>
                          /\ d.raised.at \in {"body", "rollback"}
                          /\ d.raised.at = "body" => d.raised.class = "Exception"

\* C24 (witness): one use of get_db committed and closed, the next one
\* rolled back, closed and re-raised the body's exception
C24_CommitThenRollback ==
    /\ probe.fn = GetDbName
    /\ Len(probe.done) = 2
    /\ probe.done[1].ops = <<"commit", "close">>
    /\ probe.done[1].raised = NoException
    /\ probe.done[2].ops = <<"rollback", "close">>
    /\ probe.done[2].raised = ExceptionAt("body", "Exception")

\* messages_received, messages_published and errors
Received == stats.messages_received

Published == stats.messages_published

Errors == stats.errors

\* C25: every inbound message increments messages_received by exactly one
\* (and nothing else changes it); a message whose payload is not valid JSON,
\* or whose event_type is neither queue_update nor gate_passage, is dropped
\* without raising, without changing any smoother, cached model or stored
\* queue state, and without publishing anything.
C25_InvalidMessagesDropped ==
    [][/\ \A m \in Messages :
              OnMessage(m)
              => /\ Received' = Received + 1
                 /\ Ignored(m)
                    => /\ pc' = "idle"
                       /\ Errors' = Errors /\ Published' = Published
                       /\ UNCHANGED <<smoothers, queue_models, queue_states, outbox,
                                      log, conn, running>>
       /\ Received' # Received => \E m \in Messages : OnMessage(m)
       /\ ignored' # ignored
          => /\ ignored' = ignored + 1
             /\ pc = "idle" /\ pc' = "idle"
             /\ UNCHANGED <<smoothers, queue_models, queue_states, outbox, log>>
      ]_vars

\* C25 (witness): three messages were received; two of them were dropped as
\* invalid or of another type and left no trace, one was processed
C25_TwoDroppedOneProcessed ==
    /\ Received = 3
    /\ ignored = 2
    /\ pc = "idle"
    /\ Len(log[Restroom]) = 1 /\ Len(log[Bar]) = 0
    /\ smoothers[Bar] = None /\ ~queue_states[Bar].present
    /\ Published = 1 /\ Len(outbox[Restroom]) = 1 /\ Errors = 0

\* the number of events of a POI whose update was handed to the broker with
\* the given outcome of the publish
PublishedAs(poi_id, how) ==
    Cardinality({i \in 1..Len(log[poi_id]) : log[poi_id][i].published = how})

\* the latest event recorded for a POI
LastEvent(poi_id) == log[poi_id][Len(log[poi_id])]

\* C26: each publish attempt changes exactly one counter: if the broker
\* publish succeeds, messages_published increases by one and errors is
\* unchanged; if it raises, errors increases by one, messages_published is
\* unchanged, and the exception does not propagate to the caller (the
\* handler ends as for a processed event).
C26_PublishAttemptCountedOnce ==
    [][/\ (pc = "publish" /\ pc' # "publish")
          => LET p    == cur.poi_id
                 last == log'[p][Len(log'[p])]
             IN  /\ pc' = "idle"
                 /\ Len(log'[p]) = Len(log[p]) + 1
                 /\ last.outcome = "ok"
                 /\ queue_states' = queue_states
                 /\ \/ /\ last.published = "sent"
                       /\ Published' = Published + 1 /\ Errors' = Errors
                       /\ outbox'[p] = Append(outbox[p], Update(cur))
                    \/ /\ last.published = "failed"
                       /\ Errors' = Errors + 1 /\ Published' = Published
                       /\ outbox' = outbox
       /\ (Published' # Published \/ outbox' # outbox)
          => (pc = "publish" /\ pc' # "publish")
      ]_vars

\* C26 (witness): one update was published and counted, the publish of the
\* next one failed and was counted as the only error
C26_OnePublishedOneFailed ==
    /\ pc = "idle"
    /\ PublishedAs(Restroom, "sent") = 1
    /\ PublishedAs(Restroom, "failed") = 1
    /\ Published = 1 /\ Errors = 1
    /\ Len(outbox[Restroom]) = 1
    /\ LastEvent(Restroom).published = "failed"
    /\ LastEvent(Restroom).outcome = "ok"

RECURSIVE SumOver(_, _)
\* the sum of f[p] over the POIs in S
SumOver(f, S) ==
    IF S = {} THEN 0
    ELSE LET p == CHOOSE q \in S : TRUE IN f[p] + SumOver(f, S \ {p})

\* queue events recorded so far, and updates handed to the broker so far
EventsProcessed == SumOver([p \in PoiIds |-> Len(log[p])], PoiIds)

UpdatesSent == SumOver([p \in PoiIds |-> Len(outbox[p])], PoiIds)

\* C27: in every reachable state messages_published <= messages_received:
\* one inbound message causes at most one published update (every
\* published update belongs to a queue event of its own), and only
\* queue_update messages cause one (an ignored message causes none).
C27_PublishedAtMostReceived ==
    /\ Published <= Received
    /\ Published = UpdatesSent
    /\ \A p \in PoiIds : Len(outbox[p]) = PublishedAs(p, "sent")
    /\ EventsProcessed + ignored + (IF pc = "idle" THEN 0 ELSE 1) <= Received

\* C27 (witness): three messages were received and each of them caused a
\* published update
C27_EveryMessagePublished ==
    /\ Received = 3
    /\ Published = 3
    /\ UpdatesSent = 3
    /\ Len(outbox[Restroom]) = 2 /\ Len(outbox[Bar]) = 1

\* the stored state holds the wait, the confidence bounds and the status of
\* an update
HoldsUpdate(row, update) ==
    /\ row.present
    /\ row.wait_minutes = update.wait_minutes
    /\ row.confidence_lower = update.confidence_lower
    /\ row.confidence_upper = update.confidence_upper
    /\ row.status = update.status

\* C28: a result is published only after it has been written to the
\* facility's stored queue state: at the moment an update for a facility is
\* published (and while the publish is awaited), the stored state of that
\* facility holds the same wait, confidence bounds and status; if the write
\* fails nothing is published for that observation.
C28_StoredBeforePublished ==
    /\ [][\A p \in PoiIds :
              outbox'[p] # outbox[p]
              => /\ Len(outbox'[p]) = Len(outbox[p]) + 1
                 /\ HoldsUpdate(queue_states[p], outbox'[p][Len(outbox'[p])])
                 /\ queue_states'[p] = queue_states[p]]_vars
    /\ [](pc = "publish" => HoldsUpdate(queue_states[cur.poi_id], Update(cur)))
    /\ [](\A p \in PoiIds : \A i \in 1..Len(log[p]) :
              log[p][i].outcome # "ok" => log[p][i].published = "none")

\* C28 (witness): the write of the first observation failed and nothing
\* was published for it; the next result is stored and about to be
\* published
C28_WriteFailedThenStoredAndPublishing ==
    /\ pc = "publish"
    /\ cur.poi_id = Restroom
    /\ Len(log[Restroom]) = 1
    /\ log[Restroom][1].outcome = "db_error: update_queue_state"
    /\ log[Restroom][1].published = "none"
    /\ outbox[Restroom] = <<>>
    /\ HoldsUpdate(queue_states[Restroom], Update(cur))

\* an observation with raw rate x taken into a smoothed rate: x itself for
\* the first one, 0.3 * x + 0.7 * previous afterwards
Absorb(previous, x) ==
    IF previous = None THEN Fin(x)
    ELSE Fin(RAdd(RMul(Rat(3, 10), x), RMul(Rat(7, 10), ToRat(previous))))

\* the event got past the smoothing step (it did not fail on reading the POI)
Smoothed(e) == e.outcome # "db_error: get_poi_by_id"

\* the event failed after the smoothing step: the estimate raised, or
\* reading or writing the stored state failed
FailedAfterSmoothing(e) == e.outcome # "ok" /\ Smoothed(e)

\* the smoothed rate of a POI after the first i of its events, every event
\* that got past the smoothing step taken in, failed or not
RECURSIVE SmoothedAfter(_, _)
SmoothedAfter(poi_id, i) ==
    IF i = 0 THEN None
    ELSE IF Smoothed(log[poi_id][i])
    THEN Absorb(SmoothedAfter(poi_id, i - 1), Rat(log[poi_id][i].queue_length, 5))
    ELSE SmoothedAfter(poi_id, i - 1)

\* the event in hand is past the smoothing step
PastSmoothing(poi_id) ==
    cur.poi_id = poi_id /\ pc \in {"get_state", "update", "publish"}

\* C29: the smoother is updated before the estimate is computed and before
\* anything is stored, and it is not rolled back: when processing of an
\* observation fails after the smoothing step, the stored queue state is
\* unchanged and nothing is published, but the smoothed rate has absorbed
\* the observation and every later estimate is computed from it.
C29_SmoothingNotRolledBack ==
    /\ [](\A p \in PoiIds :
              /\ smoothers[p] =
                     (IF PastSmoothing(p)
                      THEN Absorb(SmoothedAfter(p, Len(log[p])), Rat(cur.queue_length, 5))
                      ELSE SmoothedAfter(p, Len(log[p])))
              /\ \A i \in 1..Len(log[p]) :
                     LET e == log[p][i]
                     IN  /\ Smoothed(e) => e.smoothed_rate = SmoothedAfter(p, i)
                         /\ FailedAfterSmoothing(e) => e.published = "none"
                         /\ e.outcome = "ok"
                            => e.result = CalculateWaitTime(e.model_servers,
                                                            ToRat(e.smoothed_rate),
                                                            e.service_rate,
                                                            e.queue_length).value)
    /\ [][\A p \in PoiIds :
              (Len(log'[p]) > Len(log[p]) /\ FailedAfterSmoothing(log'[p][Len(log'[p])]))
              => /\ queue_states' = queue_states
                 /\ outbox' = outbox
                 /\ Published' = Published
                 /\ smoothers'[p] = log'[p][Len(log'[p])].smoothed_rate
                 /\ smoothers'[p] =
                        Absorb(SmoothedAfter(p, Len(log[p])),
                               Rat(log'[p][Len(log'[p])].queue_length, 5))]_vars

\* C29 (witness): the write of an observation with raw rate 2 failed and
\* left no stored state; the next observation, with raw rate 0, was
\* estimated and stored with the smoothed rate 0.7 * 2 = 1.4
C29_FailedObservationStillSmoothed ==
    /\ pc = "idle"
    /\ Len(log[Restroom]) = 2
    /\ log[Restroom][1].outcome = "db_error: update_queue_state"
    /\ log[Restroom][1].smoothed_rate = Fin(RInt(2))
    /\ log[Restroom][2].outcome = "ok"
    /\ log[Restroom][2].queue_length = 0
    /\ log[Restroom][2].smoothed_rate = Fin(Rat(7, 5))
    /\ ~log[Restroom][2].previous_state.present
    /\ smoothers[Restroom] = Fin(Rat(7, 5))
    /\ queue_states[Restroom].arrival_rate = Fin(Rat(7, 5))

(***************************************************************************)
(* The connection loop of start() with its sleep coming to an end.         *)
(***************************************************************************)
\* "await asyncio.sleep(5)" returns after five seconds: a loop that is
\* sleeping goes on to evaluate "while self.running"
SpecLive == Spec /\ WF_vars(Retry)

\* stop() has been called on a consumer that start() is running
Stopped == conn # "none" /\ ~running

\* this step opens a connection
Attempts == conn # "connecting" /\ conn' = "connecting"

\* this step ends the current connection, or the attempt to open it
ConnectionEnds ==
    \/ conn \in {"connecting", "up"} /\ conn' \notin {"connecting", "up"}
    \/ conn = "up" /\ conn' = "connecting"

\* this step ends the current connection with an error
ConnectionFails ==
    /\ conn \in {"connecting", "up"}
    /\ conn' \in {"backoff", "ended"}
    /\ faults' = faults + 1

\* C30: the consumer reconnects after its broker connection ends if and
\* only if running is still true: once stop() has been called, start()
\* makes no further connection attempt and returns when the current
\* connection ends; while running is true every connection error is
\* counted in errors and is followed by a new connection attempt.
C30_ReconnectsWhileRunning ==
    /\ [][/\ Attempts => (conn = "none" \/ running)
          /\ Stopped => ~Attempts /\ Stopped'
          /\ (Stopped /\ ConnectionEnds) => conn' = "ended"
          /\ (running /\ ConnectionEnds) => conn' \in {"connecting", "backoff"}
          /\ ConnectionFails => Errors' = Errors + 1
          /\ (running /\ ConnectionFails) => conn' = "backoff"
          /\ (conn = "backoff" /\ conn' # "backoff")
             => conn' = (IF running THEN "connecting" ELSE "ended")
          /\ conn = "ended" => conn' = "ended"]_vars
    /\ [](conn = "backoff" => running \/ Stopped)
    /\ (conn = "backoff") ~> (conn = "connecting" \/ (Stopped /\ conn = "ended"))

\* C30 (witness): the first connection attempt failed while running was
\* true, the error was counted and a second attempt is under way
C30_SecondAttemptAfterError ==
    /\ conn = "connecting"
    /\ running
    /\ ~client
    /\ faults = 1
    /\ Errors = 1
    /\ Received = 0
=============================================================================
